---- MODULE Spec2Model ----
(***************************************************************************)
(* Deal-pipeline orchestrator: push-channel lifecycle (admin service),     *)
(* CALENDAR_SYNC, STAGE_ACTION, RESEARCH_BATCH and the idempotency-key and *)
(* workflow-run bookkeeping they share, modelled over one relational store.*)
(* Every handler is split at its awaits on the store, so that requests of  *)
(* the multi-worker services interleave exactly where the code suspends.   *)
(***************************************************************************)
EXTENDS Integers, Sequences, FiniteSets, TLC

\* ------------------------------------------------------------------ bounds
MaxChannels == 3
NumAdminWorkers == 2
MaxDay == 8
MaxSyncJobs == 2
MaxStageJobs == 2
MaxProcJobs == 3
MaxModified == 2

\* ------------------------------------------------------------- value sets
Null == "null"
Calendars == {"primary"}
SyncTokens == {"T1", "T2"}
ChannelTokens == {Null, "ct"}
AdminWorkers == 1..NumAdminWorkers
ChannelIds == 1..MaxChannels
NoRow == [channel_id |-> 0]

\* the research agents, in the order their sections are written
RESEARCH_ORDER ==
    <<"market_tam", "competitors", "founder_background",
      "risks_redflags", "product_defensibility", "traction_signals">>
Agents == {RESEARCH_ORDER[i] : i \in DOMAIN RESEARCH_ORDER}

NoTick == [readOk |-> FALSE, flag |-> FALSE]
NoBatch == [pc |-> "idle", runId |-> 0, dealId |-> 0,
            agent |-> [a \in Agents |-> "pending"],
            aborted |-> FALSE, polling |-> FALSE, tick |-> NoTick,
            page |-> <<>>, lost |-> {}]

VARIABLES
    now,            \* wall clock of the store, in days
    gcal_watches,   \* table gcal_watches, rows in insertion (created_at) order
    nextChannel,    \* number of channel ids handed out by randomUUID so far
    admin,          \* per admin worker: the request it is serving
    stopCalls,      \* channels on which the provider's channels.stop was called
    deals,          \* table deals, rows in insertion order (id = position)
    sync,           \* per CALENDAR_SYNC dispatch: the handler's position and locals
    workspaces,     \* document workspaces created so far: <<deal id, creating job>>
    tasks,          \* task records created so far: <<deal id, creating job>>
    idempotency_keys,   \* table idempotency_keys: rows [key, created_at]
    workflow_runs,  \* table workflow_runs, rows in insertion order (id = position)
    stage,          \* per STAGE_ACTION task of the queue: envelope, attempts, position
    queue,          \* jobs the stage handlers enqueued (one per run at most)
    admitted,       \* the claimKey calls that returned true: <<key, day, earlier ones>>
    gcalQueue,      \* CALENDAR_SYNC tasks the calendar webhook enqueued
    batch,          \* the RESEARCH_BATCH execution: position, agents, abort handle, poller
    asanaTask,      \* the task at the task manager: its section and modified_at
    asana_task_state,   \* table asana_task_state
    procs,          \* per TASKS_PROCESS dispatch: the handler's position and locals
    stageQueue,     \* STAGE_ACTION tasks the TASKS_PROCESS handlers enqueued
    pingPending,    \* calendar pings that claimed their key and await the enqueue
    pingReply,      \* the calendar webhook's latest response
    integration,    \* the webhookSecret of the Integration row (tenant, asana)
    asanaQueue,     \* TASKS_PROCESS tasks the task-manager webhook enqueued
    hookReply,      \* the task-manager webhook's latest response
    dispatch,       \* per worker of POST /tasks/dispatch: the request it is serving
    memo,           \* the MEMO_GENERATE execution: position, deliveries, abort handle
    memoPage,       \* the memo page of the deal: one entry per memo appended
    homePage,       \* the deal home page: one entry per callout appended
    parse,          \* the sync loop's current event: its title and the parsed fields
    researchPage    \* the research page of deal 1: clears and batch enqueues, in order

vars == <<now, gcal_watches, nextChannel, admin, stopCalls,
          deals, sync, workspaces, tasks,
          idempotency_keys, workflow_runs, stage, queue, admitted, gcalQueue, batch,
          asanaTask, asana_task_state, procs, stageQueue,
          pingPending, pingReply, integration, asanaQueue, hookReply, dispatch,
          memo, memoPage, homePage, parse, researchPage>>
memoVars == <<memo, memoPage, homePage>>
\* what the handlers above the worker route never touch
workerVars == <<dispatch, memoVars, parse, researchPage>>
pingVars == <<pingPending, pingReply>>
hookVars == <<integration, asanaQueue, hookReply>>
procVars == <<asanaTask, asana_task_state, procs, stageQueue>>
\* what the admin routes, and what CALENDAR_SYNC, never touch
stageVars == <<idempotency_keys, workflow_runs, stage, queue, admitted>>
notAdminVars == <<deals, sync, workspaces, tasks, stageVars, gcalQueue, batch, procVars,
                  pingVars, hookVars, workerVars>>
notSyncVars == <<now, nextChannel, admin, stopCalls, stageVars, gcalQueue, batch, procVars,
                 pingVars, hookVars, workerVars>>
notStageVars == <<now, gcal_watches, nextChannel, admin, stopCalls,
                  sync, workspaces, tasks, gcalQueue, batch, procVars, pingVars, hookVars, workerVars>>
notBatchVars == <<now, gcal_watches, nextChannel, admin, stopCalls, deals,
                  sync, workspaces, tasks, stageVars, gcalQueue, procVars,
                  pingVars, hookVars, workerVars>>
notProcVars == <<now, gcal_watches, nextChannel, admin, stopCalls, deals,
                 sync, workspaces, tasks, stageVars, gcalQueue, batch, pingVars, hookVars, workerVars>>
notPingVars == <<now, gcal_watches, nextChannel, admin, stopCalls, deals, sync,
                 workspaces, tasks, workflow_runs, stage, queue, batch, procVars, hookVars, workerVars>>
notHookVars == <<now, gcal_watches, nextChannel, admin, stopCalls, deals, sync,
                 workspaces, tasks, stageVars, gcalQueue, batch, procVars, pingVars,
                 workerVars>>
notWorkerVars == <<now, gcal_watches, nextChannel, admin, stopCalls, deals, sync,
                   workspaces, tasks, stageVars, gcalQueue, batch, procVars, pingVars,
                   hookVars, memoVars, parse, researchPage>>
notMemoVars == <<now, gcal_watches, nextChannel, admin, stopCalls, deals, sync,
                 workspaces, tasks, stageVars, gcalQueue, batch, procVars, pingVars,
                 hookVars, dispatch, parse, researchPage>>
\* what the title parsing never touches (it writes parse and deals)
notParseVars == <<now, gcal_watches, nextChannel, admin, stopCalls, sync,
                  workspaces, tasks, stageVars, gcalQueue, batch, procVars, pingVars,
                  hookVars, dispatch, memoVars, researchPage>>

\* --------------------------------------------------------- gcal_watches repo
ResourceOf(cal) == cal

CreateWatch(tbl, cal, ch, res, ct) ==
    Append(tbl, [calendar_id |-> cal, channel_id |-> ch, resource_id |-> res,
                 channel_token |-> ct, sync_token |-> Null,
                 status |-> "active", updated_at |-> now])

ActiveIdx(tbl, cal) ==
    {i \in DOMAIN tbl : tbl[i].calendar_id = cal /\ tbl[i].status = "active"}

MaxOf(S) == CHOOSE x \in S : \A y \in S : y <= x
MinOf(S) == CHOOSE x \in S : \A y \in S : x <= y

\* ORDER BY created_at DESC LIMIT 1
GetActiveWatch(tbl, cal) ==
    IF ActiveIdx(tbl, cal) = {} THEN NoRow ELSE tbl[MaxOf(ActiveIdx(tbl, cal))]

GetWatchByChannelId(tbl, ch) ==
    LET hit == {i \in DOMAIN tbl : tbl[i].channel_id = ch
                                   /\ tbl[i].status \in {"active", "replaced"}}
    IN  IF hit = {} THEN NoRow ELSE tbl[MinOf(hit)]

\* the UPDATE without its WHERE channel_id = $2
UpdateWatchStatusNoWhere(tbl, ch, st) ==
    [i \in DOMAIN tbl |-> [tbl[i] EXCEPT !.status = st, !.updated_at = now]]

UpdateWatchStatus(tbl, ch, st) ==
    [i \in DOMAIN tbl |->
        IF tbl[i].channel_id = ch
        THEN [tbl[i] EXCEPT !.status = st, !.updated_at = now]
        ELSE tbl[i]]

UpdateSyncToken(tbl, ch, tok) ==
    [i \in DOMAIN tbl |->
        IF tbl[i].channel_id = ch
        THEN [tbl[i] EXCEPT !.sync_token = tok, !.updated_at = now]
        ELSE tbl[i]]

RECURSIVE FilterSeq(_, _)
\* the rows of tbl whose index is in keep, order preserved
FilterSeq(tbl, keep) ==
    IF tbl = <<>> THEN <<>>
    ELSE LET n == Len(tbl)
             front == FilterSeq(SubSeq(tbl, 1, n - 1), keep)
         IN  IF n \in keep THEN Append(front, tbl[n]) ELSE front

CleanupExpiredWatches(tbl, olderThanHours) ==
    FilterSeq(tbl, {i \in DOMAIN tbl :
        ~(tbl[i].status \in {"stopped", "replaced"}
          /\ tbl[i].updated_at * 24 < now * 24 - olderThanHours)})

\* ------------------------------------------------------------ admin service
Idle == [op |-> "idle", pc |-> "idle", cal |-> Null, chan |-> 0, ct |-> Null,
         old |-> NoRow, log |-> <<>>, stopOutcome |-> Null]

\* POST /replace: the order of its four effects after the lookup
ReplaceOrderMarkFirst == <<"mark", "create", "copy", "stop">>
ReplaceOrder == <<"create", "copy", "mark", "stop">>

PosIn(seq, x) == CHOOSE i \in DOMAIN seq : seq[i] = x

\* the step after `step`; the copy is skipped when the old row has no sync_token
RECURSIVE ReplaceAfter(_, _)
ReplaceAfter(step, old) ==
    LET i == IF step = "find" THEN 0 ELSE PosIn(ReplaceOrder, step)
    IN  IF i = Len(ReplaceOrder) THEN "done"
        ELSE IF ReplaceOrder[i + 1] = "copy" /\ old.sync_token = Null
             THEN ReplaceAfter("copy", old)
             ELSE ReplaceOrder[i + 1]

\* res.json(...) or res.status(code).json(...): the request is over
Respond(w, code) == admin' = [admin EXCEPT ![w] = Idle]

\* --- POST /start
StartBegin(w, cal, ct) ==
    /\ admin[w].op = "idle"
    /\ admin' = [admin EXCEPT ![w] = [Idle EXCEPT !.op = "start", !.pc = "create",
                                                  !.cal = cal, !.ct = ct]]
    /\ UNCHANGED <<notAdminVars, now, gcal_watches, nextChannel, stopCalls>>

\* gcal.watchEvents, then createWatch
StartCreate(w) ==
    /\ admin[w].op = "start" /\ admin[w].pc = "create"
    /\ nextChannel < MaxChannels
    /\ nextChannel' = nextChannel + 1
    /\ gcal_watches' = CreateWatch(gcal_watches, admin[w].cal, nextChannel + 1,
                                   ResourceOf(admin[w].cal), admin[w].ct)
    /\ admin' = [admin EXCEPT ![w].pc = "sync", ![w].chan = nextChannel + 1]
    /\ UNCHANGED <<notAdminVars, now, stopCalls>>

\* gcal.fullSync, then updateSyncToken when a nextSyncToken came back
StartInitToken(w) ==
    /\ admin[w].op = "start" /\ admin[w].pc = "sync"
    /\ \E tok \in SyncTokens \cup {Null} :
          gcal_watches' = IF tok = Null THEN gcal_watches
                          ELSE UpdateSyncToken(gcal_watches, admin[w].chan, tok)
    /\ Respond(w, 200)
    /\ UNCHANGED <<notAdminVars, now, nextChannel, stopCalls>>

\* --- POST /replace
ReplaceBegin(w, cal) ==
    /\ admin[w].op = "idle"
    /\ admin' = [admin EXCEPT ![w] = [Idle EXCEPT !.op = "replace", !.pc = "find",
                                                  !.cal = cal]]
    /\ UNCHANGED <<notAdminVars, now, gcal_watches, nextChannel, stopCalls>>

ReplaceFind(w) ==
    /\ admin[w].op = "replace" /\ admin[w].pc = "find"
    /\ LET oldWatch == GetActiveWatch(gcal_watches, admin[w].cal)
       IN  IF oldWatch = NoRow
           THEN Respond(w, 404)
           ELSE admin' = [admin EXCEPT ![w].old = oldWatch,
                                       ![w].pc = ReplaceAfter("find", oldWatch)]
    /\ UNCHANGED <<notAdminVars, now, gcal_watches, nextChannel, stopCalls>>

\* gcal.watchEvents, then createWatch with the old row's channel_token
ReplaceCreate(w) ==
    /\ admin[w].op = "replace" /\ admin[w].pc = "create"
    /\ nextChannel < MaxChannels
    /\ nextChannel' = nextChannel + 1
    /\ gcal_watches' = CreateWatch(gcal_watches, admin[w].cal, nextChannel + 1,
                                   ResourceOf(admin[w].cal), admin[w].old.channel_token)
    /\ admin' = [admin EXCEPT ![w].chan = nextChannel + 1,
                              ![w].log = Append(@, "create"),
                              ![w].pc = ReplaceAfter("create", admin[w].old)]
    /\ UNCHANGED <<notAdminVars, now, stopCalls>>

ReplaceCopyToken(w) ==
    /\ admin[w].op = "replace" /\ admin[w].pc = "copy"
    /\ gcal_watches' = UpdateSyncToken(gcal_watches, admin[w].chan,
                                       admin[w].old.sync_token)
    /\ admin' = [admin EXCEPT ![w].log = Append(@, "copy"),
                              ![w].pc = ReplaceAfter("copy", admin[w].old)]
    /\ UNCHANGED <<notAdminVars, now, nextChannel, stopCalls>>

ReplaceMarkOld(w) ==
    /\ admin[w].op = "replace" /\ admin[w].pc = "mark"
    /\ gcal_watches' = UpdateWatchStatus(gcal_watches, admin[w].old.channel_id,
                                         "replaced")
    /\ admin' = [admin EXCEPT ![w].log = Append(@, "mark"),
                              ![w].pc = ReplaceAfter("mark", admin[w].old)]
    /\ UNCHANGED <<notAdminVars, now, nextChannel, stopCalls>>

\* gcal.stopChannel on the old channel: its failure is logged and swallowed
ReplaceStopOld(w) ==
    /\ admin[w].op = "replace" /\ admin[w].pc = "stop"
    /\ stopCalls' = stopCalls \cup {admin[w].old.channel_id}
    /\ \E outcome \in {"ok", "error"} :
          admin' = [admin EXCEPT ![w].log = Append(@, "stop"),
                                 ![w].stopOutcome = outcome,
                                 ![w].pc = ReplaceAfter("stop", admin[w].old)]
    /\ UNCHANGED <<notAdminVars, now, gcal_watches, nextChannel>>

\* res.json({newChannelId, ..., oldChannelId})
ReplaceRespond(w) ==
    /\ admin[w].op = "replace" /\ admin[w].pc = "done"
    /\ Respond(w, 200)
    /\ UNCHANGED <<notAdminVars, now, gcal_watches, nextChannel, stopCalls>>

\* --- POST /stop
StopBegin(w, ch) ==
    /\ admin[w].op = "idle"
    /\ admin' = [admin EXCEPT ![w] = [Idle EXCEPT !.op = "stop", !.pc = "find",
                                                  !.chan = ch]]
    /\ UNCHANGED <<notAdminVars, now, gcal_watches, nextChannel, stopCalls>>

StopFind(w) ==
    /\ admin[w].op = "stop" /\ admin[w].pc = "find"
    /\ LET watch == GetWatchByChannelId(gcal_watches, admin[w].chan)
       IN  IF watch = NoRow
           THEN Respond(w, 404)
           ELSE admin' = [admin EXCEPT ![w].old = watch, ![w].pc = "mark"]
    /\ UNCHANGED <<notAdminVars, now, gcal_watches, nextChannel, stopCalls>>

\* gcal.stopChannel, then updateWatchStatus(channelId, 'stopped')
StopMark(w) ==
    /\ admin[w].op = "stop" /\ admin[w].pc = "mark"
    /\ stopCalls' = stopCalls \cup {admin[w].old.channel_id}
    /\ gcal_watches' = UpdateWatchStatus(gcal_watches, admin[w].chan, "stopped")
    /\ Respond(w, 200)
    /\ UNCHANGED <<notAdminVars, now, nextChannel>>

\* a provider or store call of the request throws: catch, answer 500
AdminFail(w) ==
    /\ admin[w].op # "idle"
    /\ admin[w].pc \in {"create", "sync", "copy", "mark", "find"}
    /\ stopCalls' = IF admin[w].op = "stop" /\ admin[w].pc = "mark"
                    THEN stopCalls \cup {admin[w].old.channel_id}
                    ELSE stopCalls
    /\ Respond(w, 500)
    /\ UNCHANGED <<notAdminVars, now, gcal_watches, nextChannel>>

AdminBegin(w) ==
    \/ \E cal \in Calendars, ct \in ChannelTokens : StartBegin(w, cal, ct)
    \/ \E cal \in Calendars : ReplaceBegin(w, cal)
    \/ \E ch \in ChannelIds : StopBegin(w, ch)

AdminStep(w) ==
    \/ StartCreate(w)
    \/ StartInitToken(w)
    \/ ReplaceFind(w)
    \/ ReplaceCreate(w)
    \/ ReplaceCopyToken(w)
    \/ ReplaceMarkOld(w)
    \/ ReplaceStopOld(w)
    \/ ReplaceRespond(w)
    \/ StopFind(w)
    \/ StopMark(w)
    \/ AdminFail(w)


\* ------------------------------------------------------------- deals repo
\* provider ids are opaque: the one of a page or task names its deal and creator
NoGid == <<0, 0>>

DealIdx(tbl, cal, ev) ==
    {i \in DOMAIN tbl : tbl[i].gcal_calendar_id = cal /\ tbl[i].gcal_event_id = ev}

\* SET col = EXCLUDED.col, without COALESCE
CoalesceExcluded(a, b) == a
Coalesce(a, b) == IF a # Null THEN a ELSE b

\* notion_urls of a workspace: the page urls carry the workspace's id
NoUrls == <<>>
UrlsOf(pageId) == <<pageId>>

InsertDeal(tbl, cal, ev, ical, company, founder) ==
    Append(tbl, [id |-> Len(tbl) + 1, gcal_calendar_id |-> cal, gcal_event_id |-> ev,
                 gcal_ical_uid |-> ical,
                 company_name |-> company, founder_name |-> founder,
                 asana_task_gid |-> NoGid, notion_deal_page_id |-> NoGid,
                 notion_urls |-> NoUrls,
                 current_stage |-> "FIRST_MEETING"])

\* a plain INSERT, without ON CONFLICT (tenant_id, gcal_calendar_id, gcal_event_id)
UpsertDealNoConflict(tbl, cal, ev, ical, company, founder) ==
    InsertDeal(tbl, cal, ev, ical, company, founder)

UpsertDeal(tbl, cal, ev, ical, company, founder) ==
    IF DealIdx(tbl, cal, ev) = {}
    THEN InsertDeal(tbl, cal, ev, ical, company, founder)
    ELSE [i \in DOMAIN tbl |->
            IF i \in DealIdx(tbl, cal, ev)
            THEN [tbl[i] EXCEPT !.gcal_ical_uid = Coalesce(ical, @),
                                !.company_name = Coalesce(company, @),
                                !.founder_name = Coalesce(founder, @)]
            ELSE tbl[i]]

\* RETURNING *: the id of the row the statement wrote
UpsertReturning(tbl, cal, ev) ==
    IF DealIdx(tbl, cal, ev) = {} THEN Len(tbl) + 1 ELSE MinOf(DealIdx(tbl, cal, ev))

UpdateDealAsana(tbl, dealId, gid) ==
    [i \in DOMAIN tbl |->
        IF tbl[i].id = dealId THEN [tbl[i] EXCEPT !.asana_task_gid = gid] ELSE tbl[i]]

UpdateDealNotion(tbl, dealId, pageId) ==
    [i \in DOMAIN tbl |->
        IF tbl[i].id = dealId
        THEN [tbl[i] EXCEPT !.notion_deal_page_id = pageId, !.notion_urls = UrlsOf(pageId)]
        ELSE tbl[i]]

\* ------------------------------------------------- CALENDAR_SYNC (GCAL_SYNC)
\* the calendar's events as the provider lists them, with what isDealEvent and
\* parseCalendlyEvent make of each
EventOf(e) ==
    CASE e = "e1" -> [status |-> "confirmed", deal |-> TRUE, ical |-> "u1",
                      company |-> "Acme", founder |-> "Jane"]
      [] e = "e2" -> [status |-> "confirmed", deal |-> TRUE, ical |-> Null,
                      company |-> "Beta", founder |-> Null]
      [] e = "e3" -> [status |-> "confirmed", deal |-> FALSE, ical |-> "u3",
                      company |-> Null, founder |-> Null]
      [] OTHER    -> [status |-> "cancelled", deal |-> TRUE, ical |-> "u4",
                      company |-> "Gone", founder |-> Null]

\* what one events.list enumeration may return
SyncResults == {<<"e1">>, <<"e3", "e1">>, <<"e4", "e2">>}

SyncJobs == 1..MaxSyncJobs
NoJob == [pc |-> "new", cal |-> Null, chan |-> 0, mode |-> Null, events |-> <<>>,
          deal |-> 0, token |-> Null, target |-> 0, skipped |-> {}]

InitSyncJobs ==
    /\ sync = [j \in SyncJobs |-> NoJob]
    /\ workspaces = {}
    /\ tasks = {}

\* the handler returned (dispatch answers 200) or threw (500)
SyncEnd(outcome) == [NoJob EXCEPT !.pc = outcome]

\* the queue dispatches the job to the worker; jobs are numbered as dispatched
SyncBegin(j, cal, ch) ==
    /\ sync[j].pc = "new"
    /\ \A i \in SyncJobs : i < j => sync[i].pc # "new"
    /\ sync' = [sync EXCEPT ![j] = [NoJob EXCEPT !.pc = "load", !.cal = cal, !.chan = ch]]
    /\ UNCHANGED <<notSyncVars, gcal_watches, deals, workspaces, tasks>>

\* incremental sync with the stored token, full sync when there is none or
\* when the provider answers 410 GONE
SyncMode(watch, gone) ==
    IF watch.sync_token = Null THEN "full"
    ELSE IF gone THEN "fallback" ELSE "incremental"

\* getWatchByChannelId, then incrementalSync or fullSync at the provider
SyncLoadAndFetch(j) ==
    /\ sync[j].pc = "load"
    /\ LET watch == GetWatchByChannelId(gcal_watches, sync[j].chan)
       IN  IF watch = NoRow
           THEN sync' = [sync EXCEPT ![j] = SyncEnd("done")]
           ELSE \E evs \in SyncResults, gone \in BOOLEAN :
                   sync' = [sync EXCEPT ![j].pc = "event", ![j].events = evs,
                                        ![j].mode = SyncMode(watch, gone)]
    /\ UNCHANGED <<notSyncVars, gcal_watches, deals, workspaces, tasks>>

\* the provider call throws: the handler throws, dispatch answers 500
SyncFetchFail(j) ==
    /\ sync[j].pc = "load"
    /\ GetWatchByChannelId(gcal_watches, sync[j].chan) # NoRow
    /\ sync' = [sync EXCEPT ![j] = SyncEnd("failed")]
    /\ UNCHANGED <<notSyncVars, gcal_watches, deals, workspaces, tasks>>

\* a deal is materialized only while it has no task record yet
IsNewDealWithoutPage(deal) ==
    deal.asana_task_gid = NoGid /\ deal.notion_deal_page_id = NoGid
IsNewDeal(deal) ==
    deal.asana_task_gid = NoGid

NextEvent(job) ==
    [job EXCEPT !.events = Tail(@), !.deal = 0,
                !.pc = "event"]

\* one iteration of the loop up to and including upsertDeal
SyncUpsert(j) ==
    /\ sync[j].pc = "event" /\ sync[j].events # <<>>
    /\ LET e == Head(sync[j].events)
           ev == EventOf(e)
       IN  IF ev.status = "cancelled" \/ ~ev.deal
           THEN /\ sync' = [sync EXCEPT ![j] = NextEvent(@)]
                /\ UNCHANGED deals
           ELSE /\ deals' = UpsertDeal(deals, sync[j].cal, e, ev.ical,
                                                    ev.company, ev.founder)
                /\ LET id == UpsertReturning(deals, sync[j].cal, e)
                   IN  IF IsNewDeal(deals'[id])
                       THEN sync' = [sync EXCEPT ![j].deal = id, ![j].pc = "notion"]
                       ELSE sync' = [sync EXCEPT ![j] = NextEvent(@)]
    /\ UNCHANGED <<notSyncVars, gcal_watches, workspaces, tasks>>

\* one iteration whose upsertDeal throws: the catch of the loop body logs the
\* event and the loop continues with the next one
SyncUpsertThrow(j) ==
    /\ sync[j].pc = "event" /\ sync[j].events # <<>>
    /\ LET e == Head(sync[j].events)
       IN  /\ EventOf(e).status # "cancelled" /\ EventOf(e).deal
           /\ sync' = [sync EXCEPT ![j] = [NextEvent(@) EXCEPT !.skipped = @ \cup {e}]]
    /\ UNCHANGED <<notSyncVars, gcal_watches, deals, workspaces, tasks>>

\* createDealObject, step 1: notion.createDealWorkspace, then updateDealNotion
SyncCreateNotion(j) ==
    /\ sync[j].pc = "notion"
    /\ \/ /\ workspaces' = workspaces \cup {<<sync[j].deal, j>>}
          /\ \/ deals' = UpdateDealNotion(deals, sync[j].deal, <<sync[j].deal, j>>)
             \/ UNCHANGED deals
       \/ UNCHANGED <<workspaces, deals>>
    /\ sync' = [sync EXCEPT ![j].pc = "asana"]
    /\ UNCHANGED <<notSyncVars, gcal_watches, tasks>>

\* createDealObject, step 2: asana.createTask, then updateDealAsana
SyncCreateAsana(j) ==
    /\ sync[j].pc = "asana"
    /\ \/ /\ tasks' = tasks \cup {<<sync[j].deal, j>>}
          /\ \/ deals' = UpdateDealAsana(deals, sync[j].deal, <<sync[j].deal, j>>)
             \/ UNCHANGED deals
       \/ UNCHANGED <<tasks, deals>>
    /\ sync' = [sync EXCEPT ![j] = NextEvent(@)]
    /\ UNCHANGED <<notSyncVars, gcal_watches, workspaces>>

\* after the loop: the nextSyncToken the enumeration ended with (none when the
\* provider sent none) goes to the active watch of the calendar, else to the
\* triggering channel
SyncPersistToken(j) ==
    /\ sync[j].pc = "event" /\ sync[j].events = <<>>
    /\ \E tok \in SyncTokens \cup {Null} :
         LET activeWatch == GetActiveWatch(gcal_watches, sync[j].cal)
         IN  gcal_watches' =
               IF tok = Null THEN gcal_watches
               ELSE IF activeWatch # NoRow
                    THEN UpdateSyncToken(gcal_watches, activeWatch.channel_id, tok)
                    ELSE UpdateSyncToken(gcal_watches, sync[j].chan, tok)
    /\ sync' = [sync EXCEPT ![j] = SyncEnd("done")]
    /\ UNCHANGED <<notSyncVars, deals, workspaces, tasks>>

\* the token persistence statement by statement: getActiveWatch ...
SyncLookupActive(j) ==
    /\ sync[j].pc = "event" /\ sync[j].events = <<>>
    /\ \E tok \in SyncTokens \cup {Null} :
         LET activeWatch == GetActiveWatch(gcal_watches, sync[j].cal)
         IN  sync' = [sync EXCEPT ![j] =
                IF tok = Null THEN SyncEnd("done")
                ELSE [@ EXCEPT !.pc = "token", !.token = tok,
                               !.target = IF activeWatch # NoRow
                                          THEN activeWatch.channel_id
                                          ELSE sync[j].chan]]
    /\ UNCHANGED <<notSyncVars, gcal_watches, deals, workspaces, tasks>>

\* ... then updateSyncToken on the channel found
SyncUpdateToken(j) ==
    /\ sync[j].pc = "token"
    /\ gcal_watches' = UpdateSyncToken(gcal_watches, sync[j].target, sync[j].token)
    /\ sync' = [sync EXCEPT ![j] = SyncEnd("done")]
    /\ UNCHANGED <<notSyncVars, deals, workspaces, tasks>>

SyncStep(j) ==
    \/ \E cal \in Calendars, ch \in ChannelIds : SyncBegin(j, cal, ch)
    \/ SyncLoadAndFetch(j)
    \/ SyncFetchFail(j)
    \/ SyncUpsert(j)
    \/ SyncUpsertThrow(j)
    \/ SyncCreateNotion(j)
    \/ SyncCreateAsana(j)
    \/ SyncPersistToken(j)


\* --------------------------------------------------------- idempotency repo
HasKey(tbl, k) == \E r \in tbl : r.key = k

\* INSERT ... ON CONFLICT (key) DO NOTHING RETURNING key: the table afterwards
ClaimKey(tbl, k) ==
    IF HasKey(tbl, k) THEN tbl ELSE tbl \cup {[key |-> k, created_at |-> now]}

\* a claim that reports every key as fresh
ClaimAlwaysNew(tbl, k) == k = k

\* claimKey's result: whether the row was freshly inserted
ClaimIsNew(tbl, k) == ~HasKey(tbl, k)

GcalPingKey(channelId, messageNumber) == <<"gcal_ping", channelId, messageNumber>>

StageActionKey(taskGid, sectionGid, modifiedAt) ==
    <<"stage", taskGid, sectionGid, modifiedAt>>

\* the DELETE with interval '1 hour' * $1, as in the gcal_watches cleanup
CleanupOldKeysByHours(tbl, olderThanDays) ==
    {r \in tbl : ~(r.created_at * 24 < now * 24 - olderThanDays)}

\* DELETE FROM idempotency_keys WHERE created_at < now() - interval '1 day' * $1
CleanupOldKeys(tbl, olderThanDays) ==
    {r \in tbl : ~(r.created_at < now - olderThanDays)}

\* -------------------------------------------------------- workflow_runs repo
Terminal == {"succeeded", "failed", "canceled"}

CreateRun(tbl, dealId, taskGid, stageKey) ==
    Append(tbl, [id |-> Len(tbl) + 1, deal_id |-> dealId, task_gid |-> taskGid,
                 stage_key |-> stageKey, status |-> "running",
                 cancel_requested |-> FALSE, finished_at |-> <<>>, error |-> FALSE])

\* UPDATE ... SET cancel_requested = true, status = 'canceled' WHERE deal_id = $1
RequestCancellationClosesRuns(tbl, dealId) ==
    [i \in DOMAIN tbl |->
        IF tbl[i].deal_id = dealId
        THEN [tbl[i] EXCEPT !.cancel_requested = TRUE, !.status = "canceled"]
        ELSE tbl[i]]

\* UPDATE ... SET cancel_requested = true WHERE deal_id = $1, whatever the status
RequestCancellationAnyStatus(tbl, dealId) ==
    [i \in DOMAIN tbl |->
        IF tbl[i].deal_id = dealId
        THEN [tbl[i] EXCEPT !.cancel_requested = TRUE]
        ELSE tbl[i]]

RequestCancellation(tbl, dealId) ==
    [i \in DOMAIN tbl |->
        IF tbl[i].deal_id = dealId /\ tbl[i].status = "running"
        THEN [tbl[i] EXCEPT !.cancel_requested = TRUE]
        ELSE tbl[i]]

\* a read that answers false whatever the row says
IsCancelRequestedNever(tbl, runId) ==
    FALSE
IsCancelRequested(tbl, runId) ==
    IF runId \in DOMAIN tbl THEN tbl[runId].cancel_requested ELSE FALSE

CompleteRun(tbl, runId, status) ==
    [i \in DOMAIN tbl |->
        IF tbl[i].id = runId
        THEN [tbl[i] EXCEPT !.status = status, !.finished_at = <<now>>,
                            !.error = (status = "failed")]
        ELSE tbl[i]]

GetDealByAsanaTask(tbl, taskGid) ==
    LET hit == {i \in DOMAIN tbl : tbl[i].asana_task_gid = taskGid}
    IN  IF hit = {} THEN 0 ELSE MinOf(hit)

UpdateDealStage(tbl, dealId, stageKey) ==
    [i \in DOMAIN tbl |->
        IF tbl[i].id = dealId THEN [tbl[i] EXCEPT !.current_stage = stageKey]
        ELSE tbl[i]]

\* ------------------------------------------------------------- STAGE_ACTION
\* q-stage-actions: retry_config.max_attempts
MaxAttempts == 3

TaskOfDeal1 == <<1, 1>>

\* the STAGE_ACTION payloads TASKS_PROCESS enqueues for the task of deal 1
EnvInDiligence ==
    [taskGid |-> TaskOfDeal1, stageKey |-> "IN_DILIGENCE", sectionGid |-> "s2",
     modifiedAt |-> "m1", previousStage |-> "FIRST_MEETING"]
EnvICReview ==
    [taskGid |-> TaskOfDeal1, stageKey |-> "IC_REVIEW", sectionGid |-> "s3",
     modifiedAt |-> "m2", previousStage |-> "FIRST_MEETING"]
EnvPass ==
    [taskGid |-> TaskOfDeal1, stageKey |-> "PASS", sectionGid |-> "s4",
     modifiedAt |-> "m2", previousStage |-> "IN_DILIGENCE"]
StageEnvelopes == {EnvInDiligence, EnvICReview, EnvPass}
EnvFirstMeeting ==
    [taskGid |-> TaskOfDeal1, stageKey |-> "FIRST_MEETING", sectionGid |-> "s1",
     modifiedAt |-> "m3", previousStage |-> "IN_DILIGENCE"]
EnvArchive ==
    [taskGid |-> TaskOfDeal1, stageKey |-> "ARCHIVE", sectionGid |-> "s5",
     modifiedAt |-> "m3", previousStage |-> "FIRST_MEETING"]

StageJobs == 1..MaxStageJobs
NoEnvelope == [taskGid |-> NoGid, stageKey |-> Null, sectionGid |-> Null,
               modifiedAt |-> Null, previousStage |-> Null]
NoStageJob == [pc |-> "none", env |-> NoEnvelope, attempts |-> 0, born |-> 0,
               deal |-> 0, run |-> 0]

InitStageJobs ==
    /\ idempotency_keys = {}
    /\ workflow_runs = <<>>
    /\ stage = [s \in StageJobs |-> NoStageJob]
    /\ queue = {}
    /\ admitted = {}
    /\ gcalQueue = {}
    /\ batch = NoBatch

KeyOf(env) == StageActionKey(env.taskGid, env.sectionGid, env.modifiedAt)

\* the job each stage hands to the queue, if any
Downstream(stageKey) ==
    CASE stageKey = "IN_DILIGENCE" -> "RESEARCH_BATCH"
      [] stageKey = "IC_REVIEW" -> "MEMO_GENERATE"
      [] OTHER -> Null

\* the handler returned: dispatch answers 200 and the queue drops the task
StageAck(job) == [job EXCEPT !.pc = "acked", !.attempts = 0, !.deal = 0, !.run = 0]

\* the handler threw: dispatch answers 500 and the queue keeps the task
StageNack(job) ==
    IF job.attempts < MaxAttempts
    THEN [job EXCEPT !.pc = "retry", !.deal = 0, !.run = 0]
    ELSE [job EXCEPT !.pc = "dead", !.attempts = 0, !.deal = 0, !.run = 0]

EnvRank(env) ==
    CASE env.stageKey = "IN_DILIGENCE" -> 1
      [] env.stageKey = "IC_REVIEW" -> 2
      [] OTHER -> 3

\* TASKS_PROCESS enqueues a STAGE_ACTION (the same payload again is a
\* duplicate delivery); the queue is unordered, tasks are numbered by payload
StageEnqueue(s, env) ==
    /\ stage[s].pc = "none"
    /\ \A i \in StageJobs : i < s =>
            stage[i].pc # "none" /\ EnvRank(stage[i].env) <= EnvRank(env)
    /\ stage' = [stage EXCEPT ![s] = [NoStageJob EXCEPT !.pc = "queued", !.env = env,
                                                       !.born = now]]
    /\ UNCHANGED <<notStageVars, deals, idempotency_keys, workflow_runs, queue, admitted>>

\* the queue dispatches the task: first delivery or retry after a 5xx; at
\* most max_attempts times, within max_retry_duration
StageDeliver(s) ==
    /\ stage[s].pc \in {"queued", "retry"}
    /\ stage[s].attempts < MaxAttempts
    /\ stage[s].born = now
    /\ stage' = [stage EXCEPT ![s].pc = "claim", ![s].attempts = @ + 1]
    /\ UNCHANGED <<notStageVars, deals, idempotency_keys, workflow_runs, queue, admitted>>

\* claimKey(stageActionKey(...)); a duplicate returns at once
StageClaim(s) ==
    /\ stage[s].pc = "claim"
    /\ LET k == KeyOf(stage[s].env)
       IN  /\ idempotency_keys' = ClaimKey(idempotency_keys, k)
           /\ IF ClaimIsNew(idempotency_keys, k)
              THEN /\ stage' = [stage EXCEPT ![s].pc = "resolve"]
                   /\ admitted' = admitted \cup
                        {<<k, now, Cardinality({a \in admitted : a[1] = k})>>}
              ELSE /\ stage' = [stage EXCEPT ![s] = StageAck(@)]
                   /\ UNCHANGED admitted
    /\ UNCHANGED <<notStageVars, deals, workflow_runs, queue>>

\* the test without its first operand
CancelsOnPassOnly(env) ==
    env.stageKey \in {"PASS", "ARCHIVE"}
CancelsRunning(env) ==
    env.previousStage = "IN_DILIGENCE" \/ env.stageKey \in {"PASS", "ARCHIVE"}

\* getDealByAsanaTask, updateDealStage, and the best-effort status write to
\* the document root
StageResolve(s) ==
    /\ stage[s].pc = "resolve"
    /\ LET d == GetDealByAsanaTask(deals, stage[s].env.taskGid)
       IN  IF d = 0
           THEN /\ stage' = [stage EXCEPT ![s] = StageAck(@)]
                /\ UNCHANGED deals
           ELSE /\ deals' = UpdateDealStage(deals, d, stage[s].env.stageKey)
                /\ stage' = [stage EXCEPT ![s].deal = d,
                        ![s].pc = IF CancelsRunning(stage[s].env) THEN "cancel" ELSE "run"]
    /\ UNCHANGED <<notStageVars, idempotency_keys, workflow_runs, queue, admitted>>

StageCancel(s) ==
    /\ stage[s].pc = "cancel"
    /\ workflow_runs' = RequestCancellation(workflow_runs, stage[s].deal)
    /\ stage' = [stage EXCEPT ![s].pc = "run"]
    /\ UNCHANGED <<notStageVars, deals, idempotency_keys, queue, admitted>>

StageCreateRun(s) ==
    /\ stage[s].pc = "run"
    /\ workflow_runs' = CreateRun(workflow_runs, stage[s].deal, stage[s].env.taskGid,
                                  stage[s].env.stageKey)
    /\ stage' = [stage EXCEPT ![s].run = Len(workflow_runs) + 1, ![s].pc = "dispatch"]
    /\ UNCHANGED <<notStageVars, deals, idempotency_keys, queue, admitted>>

\* the switch on stageKey: handleInDiligence and handleICReview enqueue their
\* job, handlePass re-issues the cancellation; subtask, notes and document
\* writes are caught inside the stage functions
StageDispatch(s) ==
    /\ stage[s].pc = "dispatch"
    /\ LET env == stage[s].env
       IN  /\ queue' = IF Downstream(env.stageKey) # Null
                       THEN queue \cup {[jobType |-> Downstream(env.stageKey),
                                         runId |-> stage[s].run,
                                         dealId |-> stage[s].deal,
                                         src |-> KeyOf(env)]}
                       ELSE queue
           /\ workflow_runs' = IF env.stageKey \in {"PASS", "ARCHIVE"}
                               THEN RequestCancellation(workflow_runs, stage[s].deal)
                               ELSE workflow_runs
    /\ stage' = [stage EXCEPT ![s].pc = "complete"]
    /\ UNCHANGED <<notStageVars, deals, idempotency_keys, admitted>>

\* handleInDiligence in two steps. First the best-effort clearPageContent of
\* the research page: a failure is logged and swallowed
StageClearPage(s) ==
    /\ stage[s].pc = "dispatch" /\ stage[s].env.stageKey = "IN_DILIGENCE"
    /\ \/ researchPage' = Append(researchPage, [op |-> "clear", run |-> stage[s].run])
       \/ UNCHANGED researchPage
    /\ stage' = [stage EXCEPT ![s].pc = "spawn"]
    /\ UNCHANGED <<now, gcal_watches, nextChannel, admin, stopCalls, sync, workspaces,
                   tasks, gcalQueue, batch, procVars, pingVars, hookVars, dispatch,
                   memoVars, parse, deals, idempotency_keys, workflow_runs, queue,
                   admitted>>

\* then tasksEnqueuer.enqueue of the RESEARCH_BATCH; the human subtasks after
\* it are best-effort
StageSpawnBatch(s) ==
    /\ stage[s].pc = "spawn"
    /\ queue' = queue \cup {[jobType |-> "RESEARCH_BATCH", runId |-> stage[s].run,
                             dealId |-> stage[s].deal, src |-> KeyOf(stage[s].env)]}
    /\ researchPage' = Append(researchPage, [op |-> "enqueue", run |-> stage[s].run])
    /\ stage' = [stage EXCEPT ![s].pc = "complete"]
    /\ UNCHANGED <<now, gcal_watches, nextChannel, admin, stopCalls, sync, workspaces,
                   tasks, gcalQueue, batch, procVars, pingVars, hookVars, dispatch,
                   memoVars, parse, deals, idempotency_keys, workflow_runs, admitted>>

\* the other cases of the switch
StageDispatchOther(s) ==
    /\ stage[s].env.stageKey # "IN_DILIGENCE"
    /\ StageDispatch(s)

\* completeRun(run.id, 'succeeded')
StageComplete(s) ==
    /\ stage[s].pc = "complete"
    /\ workflow_runs' = CompleteRun(workflow_runs, stage[s].run, "succeeded")
    /\ stage' = [stage EXCEPT ![s] = StageAck(@)]
    /\ UNCHANGED <<notStageVars, deals, idempotency_keys, queue, admitted>>

\* a store call before the try block throws: the handler throws
StageThrowEarly(s) ==
    /\ stage[s].pc \in {"claim", "resolve", "cancel", "run"}
    /\ stage' = [stage EXCEPT ![s] = StageNack(@)]
    /\ UNCHANGED <<notStageVars, deals, idempotency_keys, workflow_runs, queue, admitted>>

\* the stage function (getSecret, the enqueue, requestCancellation) or
\* completeRun(succeeded) throws: catch, completeRun(run.id, 'failed'), rethrow;
\* when that completeRun throws as well the run stays as it is
StageThrowInTry(s) ==
    /\ stage[s].pc \in {"dispatch", "spawn", "complete"}
    /\ \/ workflow_runs' = CompleteRun(workflow_runs, stage[s].run, "failed")
       \/ UNCHANGED workflow_runs
    /\ stage' = [stage EXCEPT ![s] = StageNack(@)]
    /\ UNCHANGED <<notStageVars, deals, idempotency_keys, queue, admitted>>

StageStep(s) ==
    \/ \E env \in StageEnvelopes : StageEnqueue(s, env)
    \/ StageDeliver(s)
    \/ StageClaim(s)
    \/ StageResolve(s)
    \/ StageCancel(s)
    \/ StageCreateRun(s)
    \/ StageDispatch(s)
    \/ StageComplete(s)
    \/ StageThrowEarly(s)
    \/ StageThrowInTry(s)

\* ------------------------------------------------------ asana_task_state repo
PipelineProject == "p1"
Sections == {"s1", "s2", "s5"}
\* a section of the project whose pipeline_sections row is disabled
DisabledSections == {"s4"}

RowsOf(tbl, taskGid, projectGid) ==
    {r \in tbl : r.task_gid = taskGid /\ r.project_gid = projectGid}

\* the SELECT of upsertAndDetectChange: the stored row, Null fields if none
ExistingState(tbl, taskGid, projectGid) ==
    IF RowsOf(tbl, taskGid, projectGid) = {}
    THEN [last_seen_section_gid |-> Null, last_triggered_stage |-> Null]
    ELSE LET r == CHOOSE r \in RowsOf(tbl, taskGid, projectGid) : TRUE
         IN  [last_seen_section_gid |-> r.last_seen_section_gid,
              last_triggered_stage |-> r.last_triggered_stage]

\* changed = previousSectionGid !== null && previousSectionGid !== currentSectionGid
SectionChanged(previousSectionGid, currentSectionGid) ==
    previousSectionGid # Null /\ previousSectionGid # currentSectionGid

\* the upsert that writes only when the section differs
UpsertTaskStateIfMoved(tbl, taskGid, projectGid, sectionGid, modifiedAt) ==
    IF \E r \in RowsOf(tbl, taskGid, projectGid) : r.last_seen_section_gid = sectionGid
    THEN tbl
    ELSE (tbl \ RowsOf(tbl, taskGid, projectGid)) \cup
         {[task_gid |-> taskGid, project_gid |-> projectGid,
           last_seen_section_gid |-> sectionGid,
           last_processed_modified_at |-> modifiedAt,
           last_triggered_stage |-> Null, updated_at |-> now]}

\* INSERT ... ON CONFLICT (tenant_id, task_gid, project_gid) DO UPDATE SET
\* last_seen_section_gid, last_processed_modified_at, updated_at
UpsertTaskState(tbl, taskGid, projectGid, sectionGid, modifiedAt) ==
    IF RowsOf(tbl, taskGid, projectGid) = {}
    THEN tbl \cup {[task_gid |-> taskGid, project_gid |-> projectGid,
                    last_seen_section_gid |-> sectionGid,
                    last_processed_modified_at |-> modifiedAt,
                    last_triggered_stage |-> Null, updated_at |-> now]}
    ELSE {IF r \in RowsOf(tbl, taskGid, projectGid)
          THEN [r EXCEPT !.last_seen_section_gid = sectionGid,
                         !.last_processed_modified_at = modifiedAt,
                         !.updated_at = now]
          ELSE r : r \in tbl}

SetTriggeredStage(tbl, taskGid, projectGid, stageKey) ==
    {IF r \in RowsOf(tbl, taskGid, projectGid)
     THEN [r EXCEPT !.last_triggered_stage = stageKey, !.updated_at = now]
     ELSE r : r \in tbl}

\* table pipeline_sections: s5 has no row, the row of s4 is disabled
PipelineSections ==
    {[project_gid |-> PipelineProject, section_gid |-> "s1",
      stage_key |-> "FIRST_MEETING", enabled |-> TRUE],
     [project_gid |-> PipelineProject, section_gid |-> "s2",
      stage_key |-> "IN_DILIGENCE", enabled |-> TRUE],
     [project_gid |-> PipelineProject, section_gid |-> "s4",
      stage_key |-> "ARCHIVE", enabled |-> FALSE]}

\* SELECT ... WHERE project_gid = $2 AND section_gid = $3 AND enabled = true
GetStageForSection(projectGid, sectionGid) ==
    LET rows == {r \in PipelineSections :
                    /\ r.project_gid = projectGid /\ r.section_gid = sectionGid
                    /\ r.enabled}
    IN  IF rows = {} THEN Null ELSE (CHOOSE r \in rows : TRUE).stage_key

\* ------------------------------------------------------------ TASKS_PROCESS
ProcJobs == 1..MaxProcJobs
NoProc == [pc |-> "new", section |-> Null, modified |-> 0, stable |-> FALSE,
           changed |-> FALSE, previousSectionGid |-> Null, previousStage |-> Null,
           wrote |-> FALSE]

InitProcJobs ==
    /\ asanaTask = [section |-> "s1", modified_at |-> 0]
    /\ asana_task_state = {}
    /\ procs = [j \in ProcJobs |-> NoProc]
    /\ stageQueue = {}

\* the handler returned or threw: only what it saw and wrote is kept
ProcEnd(job, outcome) ==
    [job EXCEPT !.pc = outcome, !.section = Null, !.previousSectionGid = Null,
                !.previousStage = Null]

\* a user moves the task to another section of the project, or out of it
MoveTask(sec) ==
    /\ asanaTask.modified_at < MaxModified
    /\ sec # asanaTask.section
    /\ asanaTask' = [section |-> sec, modified_at |-> asanaTask.modified_at + 1]
    /\ UNCHANGED <<notProcVars, asana_task_state, procs, stageQueue>>

\* a user edits the task where it is
EditTask ==
    /\ asanaTask.modified_at < MaxModified
    /\ asanaTask' = [asanaTask EXCEPT !.modified_at = @ + 1]
    /\ UNCHANGED <<notProcVars, asana_task_state, procs, stageQueue>>

\* the worker is handed a TASKS_PROCESS task; asana.getTask and the
\* membership of the pipeline project
ProcFetch(j) ==
    /\ procs[j].pc = "new"
    /\ \A i \in ProcJobs : i < j => procs[i].pc # "new"
    /\ procs' = [procs EXCEPT ![j] =
            IF asanaTask.section = Null
            THEN ProcEnd(NoProc, "returned")
            ELSE [NoProc EXCEPT !.pc = "select", !.section = asanaTask.section,
                                !.modified = asanaTask.modified_at]]
    /\ UNCHANGED <<notProcVars, asanaTask, asana_task_state, stageQueue>>

\* upsertAndDetectChange, the SELECT
ProcSelect(j) ==
    /\ procs[j].pc = "select"
    /\ LET existing == ExistingState(asana_task_state, TaskOfDeal1, PipelineProject)
       IN  procs' = [procs EXCEPT ![j].pc = "upsert",
                ![j].stable = (existing.last_seen_section_gid = procs[j].section),
                ![j].changed = SectionChanged(existing.last_seen_section_gid,
                                              procs[j].section),
                ![j].previousSectionGid = existing.last_seen_section_gid,
                ![j].previousStage = existing.last_triggered_stage]
    /\ UNCHANGED <<notProcVars, asanaTask, asana_task_state, stageQueue>>

\* upsertAndDetectChange, the upsert; an unchanged section ends the handler
ProcUpsert(j) ==
    /\ procs[j].pc = "upsert"
    /\ asana_task_state' = UpsertTaskState(asana_task_state, TaskOfDeal1, PipelineProject,
                                           procs[j].section, procs[j].modified)
    /\ procs' = [procs EXCEPT ![j] =
            IF procs[j].changed THEN [@ EXCEPT !.pc = "enqueue", !.wrote = TRUE]
            ELSE ProcEnd([@ EXCEPT !.wrote = TRUE], "returned")]
    /\ UNCHANGED <<notProcVars, asanaTask, stageQueue>>

\* getStageForSection, then the STAGE_ACTION enqueue; an unmapped section
\* ends the handler
ProcEnqueue(j) ==
    /\ procs[j].pc = "enqueue"
    /\ LET stageKey == GetStageForSection(PipelineProject, procs[j].section)
       IN  IF stageKey = Null
           THEN /\ procs' = [procs EXCEPT ![j] = ProcEnd(@, "returned")]
                /\ UNCHANGED stageQueue
           ELSE /\ stageQueue' = stageQueue \cup
                     {[taskGid |-> TaskOfDeal1, sectionGid |-> procs[j].section,
                       stageKey |-> stageKey, modifiedAt |-> procs[j].modified,
                       previousStage |-> procs[j].previousStage, by |-> j]}
                /\ procs' = [procs EXCEPT ![j].pc = "trigger"]
    /\ UNCHANGED <<notProcVars, asanaTask, asana_task_state>>

\* setTriggeredStage
ProcSetTriggered(j) ==
    /\ procs[j].pc = "trigger"
    /\ asana_task_state' = SetTriggeredStage(asana_task_state, TaskOfDeal1, PipelineProject,
                                GetStageForSection(PipelineProject, procs[j].section))
    /\ procs' = [procs EXCEPT ![j] = ProcEnd(@, "returned")]
    /\ UNCHANGED <<notProcVars, asanaTask, stageQueue>>

\* getSecret, getTask, a store call or the enqueue throws: the handler throws
ProcThrow(j) ==
    /\ procs[j].pc \in {"select", "upsert", "enqueue", "trigger"}
    /\ procs' = [procs EXCEPT ![j] = [NoProc EXCEPT !.pc = "threw",
                                                    !.changed = procs[j].changed,
                                                    !.wrote = procs[j].wrote]]
    /\ UNCHANGED <<notProcVars, asanaTask, asana_task_state, stageQueue>>

ProcStep(j) ==
    \/ ProcFetch(j)
    \/ ProcSelect(j)
    \/ ProcUpsert(j)
    \/ ProcEnqueue(j)
    \/ ProcSetTriggered(j)
    \/ ProcThrow(j)

UserStep ==
    \/ \E sec \in Sections \cup {Null} : MoveTask(sec)
    \/ EditTask

\* ----------------------------------------------------------- RESEARCH_BATCH
\* the request is sent whatever the state of the signal
RunResearchIgnoresSignal(aborted) == "inflight"

\* runResearch hands { signal } to the completion call: with the signal
\* already aborted the call rejects without a round trip
RunResearch(aborted) == IF aborted THEN "refused" ELSE "inflight"

\* abortController.abort(): every request in flight rejects
AbortInFlight(agent) ==
    [a \in DOMAIN agent |-> IF agent[a] = "inflight" THEN "aborted" ELSE agent[a]]

\* the worker is handed a RESEARCH_BATCH task of the queue
BatchBegin ==
    /\ batch.pc = "idle"
    /\ \E q \in queue :
        /\ q.jobType = "RESEARCH_BATCH"
        /\ batch' = [NoBatch EXCEPT !.pc = "precheck", !.runId = q.runId,
                                    !.dealId = q.dealId]
    /\ UNCHANGED notBatchVars

\* isCancelRequested(runId) before anything starts; otherwise the abort
\* handle is created and the 5 s poller armed
BatchPrecheck ==
    /\ batch.pc = "precheck"
    /\ batch' = IF IsCancelRequested(workflow_runs, batch.runId)
                THEN [batch EXCEPT !.pc = "returned"]
                ELSE [batch EXCEPT !.pc = "secret", !.polling = TRUE]
    /\ UNCHANGED notBatchVars

\* await getSecret('OPENAI_API_KEY'), then the six agents are launched
BatchGetSecret ==
    /\ batch.pc = "secret"
    /\ batch' = [batch EXCEPT !.pc = "agents"]
    /\ UNCHANGED notBatchVars

AgentStart(a) ==
    /\ batch.pc = "agents"
    /\ batch.agent[a] = "pending"
    /\ batch' = [batch EXCEPT !.agent[a] = RunResearch(batch.aborted)]
    /\ UNCHANGED notBatchVars

\* the completion call returns or throws; the agent's own catch absorbs it
AgentFinish(a) ==
    /\ batch.pc = "agents"
    /\ batch.agent[a] = "inflight"
    /\ \E outcome \in {"ok", "failed"} : batch' = [batch EXCEPT !.agent[a] = outcome]
    /\ UNCHANGED notBatchVars

\* without the agents' own try/catch: the first rejection rejects Promise.all
SectionsAllOrNothing(agent, lost) ==
    IF \E a \in Agents : agent[a] # "ok" THEN <<>>
    ELSE SelectSeq(RESEARCH_ORDER, LAMBDA a : a \notin lost)

\* for (const item of results): the results are in RESEARCH_ORDER; a section
\* is appended for each successful item unless its appendBlocks throws
SectionsWritten(agent, lost) ==
    SelectSeq(RESEARCH_ORDER, LAMBDA a : agent[a] = "ok" /\ a \notin lost)

\* the deal row carries the research page once its workspace was stored
HasResearchPage(tbl, dealId) ==
    \E i \in DOMAIN tbl : tbl[i].id = dealId /\ tbl[i].notion_deal_page_id # NoGid

\* Promise.all resolves; getDealById, then the sections are appended to the
\* research page (a failed append is logged and skipped), finally clearInterval
BatchWrite ==
    /\ batch.pc = "agents"
    /\ \A a \in Agents : batch.agent[a] \notin {"pending", "inflight"}
    /\ IF HasResearchPage(deals, batch.dealId)
       THEN \E lost \in SUBSET {a \in Agents : batch.agent[a] = "ok"} :
                batch' = [batch EXCEPT !.pc = "returned", !.polling = FALSE,
                                       !.lost = lost,
                                       !.page = SectionsWritten(batch.agent, lost)]
       ELSE batch' = [batch EXCEPT !.pc = "returned", !.polling = FALSE]
    /\ UNCHANGED notBatchVars

\* the precheck, getSecret or getDealById throws: finally clearInterval, rethrow
BatchThrow ==
    /\ batch.pc \in {"precheck", "secret", "agents"}
    /\ batch.pc = "agents" =>
            \A a \in Agents : batch.agent[a] \notin {"pending", "inflight"}
    /\ batch' = [batch EXCEPT !.pc = "threw", !.polling = FALSE]
    /\ UNCHANGED notBatchVars

\* one firing of the interval callback: read cancel_requested; if it is set,
\* abort and clearInterval; a read that throws is swallowed
PollTick ==
    /\ batch.polling
    /\ \E readOk \in BOOLEAN :
        LET flag == IsCancelRequested(workflow_runs, batch.runId)
        IN  batch' = IF readOk /\ flag
                     THEN [batch EXCEPT !.aborted = TRUE, !.polling = FALSE,
                                        !.agent = AbortInFlight(@),
                                        !.tick = [readOk |-> readOk, flag |-> flag]]
                     ELSE [batch EXCEPT !.tick = [readOk |-> readOk, flag |-> flag]]
    /\ UNCHANGED notBatchVars

BatchStep ==
    \/ BatchBegin
    \/ BatchPrecheck
    \/ BatchGetSecret
    \/ \E a \in Agents : AgentStart(a)
    \/ \E a \in Agents : AgentFinish(a)
    \/ BatchWrite
    \/ BatchThrow
    \/ PollTick

\* --------------------------------------------------- calendar webhook (ingress)
\* header values of a push notification; channel 0 and Null stand for an
\* absent header
MessageNumbers == {"7"}
PingChannels == 0..MaxChannels
PingResources == {Null, "primary", "other"}
PingStates == {"sync", "exists"}
PingTokens == {Null, "ct", "bad"}

NoReply == [code |-> 0, log |-> Null, seq |-> 0]

InitPings ==
    /\ pingPending = {}
    /\ pingReply = NoReply

\* res.status(code) with the line the handler logs before it; seq tells two
\* equal responses apart
Reply(last, code, log) == [code |-> code, log |-> log, seq |-> 1 - last.seq]

\* channelToken && watch.channel_token && channelToken !== watch.channel_token
TokenRejected(channelToken, watchToken) ==
    channelToken # Null /\ watchToken # Null /\ channelToken # watchToken

\* a header validation that also rejects the sync handshake
PingGateRejectsSync(ch, res, st) ==
    IF ch = 0 \/ res = Null \/ st = "sync" THEN "missing required headers"
    ELSE "pass"

\* the header validation of POST /webhooks/gcal, then the sync handshake
PingGate(ch, res, st) ==
    IF ch = 0 \/ res = Null THEN "missing required headers"
    ELSE IF st = "sync" THEN "sync notification received"
    ELSE "pass"

\* the checks of POST /webhooks/gcal on the channel row
PingCheck(tbl, ch, res, ct) ==
    LET watch == GetWatchByChannelId(tbl, ch)
    IN  IF watch = NoRow THEN "unknown channel_id"
        ELSE IF watch.resource_id # res THEN "resource_id mismatch"
        ELSE IF TokenRejected(ct, watch.channel_token) THEN "channel_token mismatch"
        ELSE "pass"

\* a ping that reaches the idempotency claim
PingAccepted(tbl, ch, res, st, ct) ==
    PingGate(ch, res, st) = "pass" /\ PingCheck(tbl, ch, res, ct) = "pass"

\* POST /webhooks/gcal up to the idempotency claim: header validation (400),
\* the sync handshake, channel lookup and checks, claimKey(gcalPingKey); every
\* drop and every throw of the store is answered 200
GcalWebhook(ch, res, st, msg, ct) ==
    /\ \E threw \in BOOLEAN :
        LET k == GcalPingKey(ch, msg)
            gate == PingGate(ch, res, st)
            check == PingCheck(gcal_watches, ch, res, ct)
        IN  IF gate # "pass"
            THEN /\ pingReply' = Reply(pingReply,
                        IF gate = "missing required headers" THEN 400 ELSE 200, gate)
                 /\ UNCHANGED <<idempotency_keys, admitted, pingPending>>
            ELSE IF threw
            THEN /\ pingReply' = Reply(pingReply, 200, "handler error")
                 /\ UNCHANGED <<idempotency_keys, admitted, pingPending>>
            ELSE IF check # "pass"
            THEN /\ pingReply' = Reply(pingReply, 200, check)
                 /\ UNCHANGED <<idempotency_keys, admitted, pingPending>>
            ELSE IF ~ClaimIsNew(idempotency_keys, k)
            THEN /\ pingReply' = Reply(pingReply, 200, "duplicate ping, skipping")
                 /\ UNCHANGED <<idempotency_keys, admitted, pingPending>>
            ELSE /\ idempotency_keys' = ClaimKey(idempotency_keys, k)
                 /\ admitted' = admitted \cup
                        {<<k, now, Cardinality({a \in admitted : a[1] = k})>>}
                 /\ pingPending' = pingPending \cup
                        {[calendarId |-> GetWatchByChannelId(gcal_watches, ch).calendar_id,
                          channelId |-> ch, idempotencyKey |-> k]}
                 /\ UNCHANGED pingReply
    /\ UNCHANGED <<gcalQueue, notPingVars>>

\* the rest of POST /webhooks/gcal for a ping that claimed its key: the
\* GCAL_SYNC enqueue, which may throw, and the 200
GcalEnqueue(p) ==
    /\ p \in pingPending
    /\ pingPending' = pingPending \ {p}
    /\ \/ /\ gcalQueue' = gcalQueue \cup
                 {[calendarId |-> p.calendarId, channelId |-> p.channelId,
                   idempotencyKey |-> p.idempotencyKey, seq |-> Cardinality(gcalQueue)]}
          /\ pingReply' = Reply(pingReply, 200, "GCAL_SYNC task enqueued")
       \/ /\ UNCHANGED gcalQueue
          /\ pingReply' = Reply(pingReply, 200, "handler error")
    /\ UNCHANGED <<idempotency_keys, admitted, notPingVars>>

Ping ==
    \/ \E ch \in PingChannels, res \in PingResources, st \in PingStates,
          msg \in MessageNumbers, ct \in PingTokens : GcalWebhook(ch, res, st, msg, ct)
    \/ \E p \in pingPending : GcalEnqueue(p)

\* the notifications the provider sends for the watched calendar: change pings
\* that carry the calendar's resource id and the channel token
ProviderPing ==
    \/ \E ch \in PingChannels \ {0}, msg \in MessageNumbers :
          GcalWebhook(ch, ResourceOf("primary"), "exists", msg, "ct")
    \/ \E p \in pingPending : GcalEnqueue(p)

\* ------------------------------------------------ task-manager webhook (ingress)
MaxAsanaJobs == 3

HookSecrets == {"k1", "k2"}
SecretHeaders == {Null} \cup HookSecrets

\* raw request bodies: an events list, or bytes that are not JSON
Bodies == {"heartbeat", "task", "story,task", "task,task", "task without gid", "not json"}

TaskEvent(gid) == [resource_type |-> "task", gid |-> gid, action |-> "changed"]
StoryEvent == [resource_type |-> "story", gid |-> "c1", action |-> "added"]

\* JSON.parse(rawBody.toString()).events || []
EventsOf(body) ==
    CASE body = "heartbeat" -> <<>>
      [] body = "task" -> <<TaskEvent("t1")>>
      [] body = "story,task" -> <<StoryEvent, TaskEvent("t1")>>
      [] body = "task,task" -> <<TaskEvent("t1"), TaskEvent("t2")>>
      [] body = "task without gid" -> <<TaskEvent(Null)>>

\* createHmac('sha256', secret).update(rawBody).digest('hex'): 64 hex digits
\* fixed by the key and the message
HmacHex(secret, body) == [hex |-> TRUE, digits |-> 64, of |-> <<secret, body>>]

\* a request without X-Hook-Signature
NoSignature == [hex |-> TRUE, digits |-> 0, of |-> <<>>]

\* the X-Hook-Signature values sent with a body: none, the digest of this body or
\* of another one under either secret, a digest cut short, text that is not hex
SignaturesFor(body) ==
    {NoSignature, [hex |-> TRUE, digits |-> 8, of |-> <<"k1", body>>],
                  [hex |-> FALSE, digits |-> 64, of |-> <<>>]}
    \cup {HmacHex(k, b) : k \in HookSecrets, b \in {body, "heartbeat"}}

\* Buffer.from(text, 'hex'): one byte per two hex digits, decoding stops at the
\* first character that is not a hex digit
FromHex(text) ==
    IF text.hex THEN [bytes |-> text.digits \div 2, of |-> text.of]
    ELSE [bytes |-> 0, of |-> <<>>]

\* crypto.timingSafeEqual: throws a RangeError for buffers of different length
TimingSafeEqual(a, b) ==
    IF a.bytes # b.bytes THEN "throws"
    ELSE IF a.of = b.of THEN "true" ELSE "false"

\* AsanaClient.verifySignature
VerifySignature(rawBody, signature, secret) ==
    TimingSafeEqual(FromHex(HmacHex(secret, rawBody)), FromHex(signature))

\* upsertIntegration(kind 'asana', {webhookSecret}): the stored secret afterwards
UpsertIntegration(row, webhookSecret) == webhookSecret

\* a loop that enqueues a job for every event that names a resource
IsAnyEvent(e) == e.gid # Null

\* the events the loop enqueues a job for
IsTaskEvent(e) == e.resource_type = "task" /\ e.gid # Null

\* the payload of the ASANA_PROCESS job of an event
AsanaJob(e) == [taskGid |-> e.gid, projectGid |-> PipelineProject, action |-> e.action]

RECURSIVE JobsOf(_)
JobsOf(events) ==
    IF events = <<>> THEN <<>>
    ELSE IF IsTaskEvent(Head(events))
         THEN <<AsanaJob(Head(events))>> \o JobsOf(Tail(events))
         ELSE JobsOf(Tail(events))

NoHookReply == [code |-> 0, echo |-> Null, log |-> Null, seq |-> 0]

InitHooks ==
    /\ integration = Null
    /\ asanaQueue = <<>>
    /\ hookReply = NoHookReply

\* res.setHeader('X-Hook-Secret', echo) / res.status(code) with the line logged
HookRespond(last, code, echo, log) ==
    [code |-> code, echo |-> echo, log |-> log, seq |-> 1 - last.seq]

\* handshake mode of POST /webhooks/asana: store the secret, echo it, 200; a
\* failed store is logged and the secret is echoed all the same
HookHandshake(hookSecret) ==
    /\ \/ /\ integration' = UpsertIntegration(integration, hookSecret)
          /\ hookReply' = HookRespond(hookReply, 200, hookSecret, "handshake received")
       \/ /\ UNCHANGED integration
          /\ hookReply' = HookRespond(hookReply, 200, hookSecret, "handshake storage error")
    /\ UNCHANGED asanaQueue

\* events mode of POST /webhooks/asana: stored secret, signature, parse, one
\* enqueue per task event; anything thrown inside is answered 200
HookEvents(hookSignature, rawBody) ==
    /\ UNCHANGED integration
    /\ \/ /\ hookReply' = HookRespond(hookReply, 200, Null, "handler error: getIntegration")
          /\ UNCHANGED asanaQueue
       \/ IF integration = Null
          THEN /\ hookReply' = HookRespond(hookReply, 401, Null, "no stored secret found")
               /\ UNCHANGED asanaQueue
          ELSE IF hookSignature = NoSignature
          THEN /\ hookReply' = HookRespond(hookReply, 401, Null, "missing X-Hook-Signature")
               /\ UNCHANGED asanaQueue
          ELSE LET isValid == VerifySignature(rawBody, hookSignature, integration)
               IN  IF isValid = "throws"
                   THEN /\ hookReply' = HookRespond(hookReply, 200, Null,
                                                  "handler error: timingSafeEqual")
                        /\ UNCHANGED asanaQueue
                   ELSE IF isValid = "false"
                   THEN /\ hookReply' = HookRespond(hookReply, 401, Null, "invalid signature")
                        /\ UNCHANGED asanaQueue
                   ELSE IF rawBody = "not json"
                   THEN /\ hookReply' = HookRespond(hookReply, 200, Null,
                                                  "handler error: JSON.parse")
                        /\ UNCHANGED asanaQueue
                   ELSE IF EventsOf(rawBody) = <<>>
                   THEN /\ hookReply' = HookRespond(hookReply, 200, Null, "heartbeat received")
                        /\ UNCHANGED asanaQueue
                   ELSE LET jobs == JobsOf(EventsOf(rawBody))
                        IN  \E done \in 0..Len(jobs) :
                              /\ Len(asanaQueue) + done <= MaxAsanaJobs
                              /\ asanaQueue' = asanaQueue \o SubSeq(jobs, 1, done)
                              /\ hookReply' = HookRespond(hookReply, 200, Null,
                                    IF done = Len(jobs) THEN "events enqueued"
                                    ELSE "handler error: enqueue")

\* POST /webhooks/asana
AsanaWebhook(hookSecret, hookSignature, rawBody) ==
    /\ IF hookSecret # Null
       THEN HookHandshake(hookSecret)
       ELSE HookEvents(hookSignature, rawBody)
    /\ UNCHANGED notHookVars

Hook ==
    \E hookSecret \in SecretHeaders, rawBody \in Bodies :
       \E hookSignature \in SignaturesFor(rawBody) :
          AsanaWebhook(hookSecret, hookSignature, rawBody)

\* ------------------------------------------------------------- MEMO_GENERATE
ResearchMaxAttempts == 3

NoMemo == [pc |-> "idle", runId |-> 0, dealId |-> 0, deliveries |-> 0,
           aborted |-> FALSE, polling |-> FALSE, llmCalls |-> 0]

InitMemo ==
    /\ memo = NoMemo
    /\ memoPage = <<>>
    /\ homePage = <<>>

\* the deals row with this id, NoDeal if there is none
NoDeal == [id |-> 0]
GetDealById(tbl, dealId) ==
    IF \E i \in DOMAIN tbl : tbl[i].id = dealId
    THEN tbl[CHOOSE i \in DOMAIN tbl : tbl[i].id = dealId]
    ELSE NoDeal

\* the queue hands a MEMO_GENERATE task to the worker: the first delivery, a
\* retry after a 5xx, or a second delivery of a task already answered 2xx
MemoBegin ==
    /\ memo.pc \in {"idle", "returned", "threw"}
    /\ memo.deliveries < ResearchMaxAttempts
    /\ \E q \in queue :
        /\ q.jobType = "MEMO_GENERATE"
        /\ memo' = [NoMemo EXCEPT !.pc = "precheck", !.runId = q.runId,
                                  !.dealId = q.dealId,
                                  !.deliveries = memo.deliveries + 1,
                                  !.llmCalls = memo.llmCalls]
    /\ UNCHANGED <<memoPage, homePage, notMemoVars>>

\* isCancelRequested(runId) before anything starts
MemoPrecheck ==
    /\ memo.pc = "precheck"
    /\ memo' = IF IsCancelRequested(workflow_runs, memo.runId)
               THEN [memo EXCEPT !.pc = "returned"]
               ELSE [memo EXCEPT !.pc = "deal"]
    /\ UNCHANGED <<memoPage, homePage, notMemoVars>>

\* getDealById, the two secrets, the abort handle and the 5 s poller, then the
\* completion request is sent
MemoGetDeal ==
    /\ memo.pc = "deal"
    /\ memo' = IF GetDealById(deals, memo.dealId) = NoDeal
               THEN [memo EXCEPT !.pc = "returned"]
               ELSE [memo EXCEPT !.pc = "llm", !.polling = TRUE,
                                 !.llmCalls = @ + 1]
    /\ UNCHANGED <<memoPage, homePage, notMemoVars>>

\* llm.generateMemo resolves, or rejects with an error of the provider
MemoGenerated ==
    /\ memo.pc = "llm"
    /\ \/ memo' = [memo EXCEPT !.pc = "write"]
       \/ memo' = [memo EXCEPT !.pc = "threw", !.polling = FALSE]
    /\ UNCHANGED <<memoPage, homePage, notMemoVars>>

\* the memo blocks are appended to the memo page of the deal, if it has one;
\* an appendBlocks that throws leaves the handler through finally
MemoWrite ==
    /\ memo.pc = "write"
    /\ IF GetDealById(deals, memo.dealId).notion_deal_page_id # NoGid
       THEN \/ /\ memoPage' = Append(memoPage, memo.deliveries)
               /\ memo' = [memo EXCEPT !.pc = "home"]
            \/ /\ UNCHANGED memoPage
               /\ memo' = [memo EXCEPT !.pc = "threw", !.polling = FALSE]
       ELSE /\ UNCHANGED memoPage
            /\ memo' = [memo EXCEPT !.pc = "returned", !.polling = FALSE]
    /\ UNCHANGED <<homePage, notMemoVars>>

\* the callout on the deal home page; its failure is logged and swallowed
MemoHome ==
    /\ memo.pc = "home"
    /\ \/ homePage' = Append(homePage, memo.deliveries)
       \/ UNCHANGED homePage
    /\ memo' = [memo EXCEPT !.pc = "returned", !.polling = FALSE]
    /\ UNCHANGED <<memoPage, notMemoVars>>

\* isCancelRequested or getDealById throws before the try block
MemoThrow ==
    /\ memo.pc \in {"precheck", "deal"}
    /\ memo' = [memo EXCEPT !.pc = "threw"]
    /\ UNCHANGED <<memoPage, homePage, notMemoVars>>

\* one firing of the interval callback: with cancel_requested set it aborts the
\* signal and stops; a completion request in flight rejects with AbortError and
\* the handler returns
MemoPollTick ==
    /\ memo.polling
    /\ \E readOk \in BOOLEAN :
        memo' = IF readOk /\ IsCancelRequested(workflow_runs, memo.runId)
                THEN IF memo.pc = "llm"
                     THEN [memo EXCEPT !.aborted = TRUE, !.polling = FALSE,
                                       !.pc = "returned"]
                     ELSE [memo EXCEPT !.aborted = TRUE, !.polling = FALSE]
                ELSE memo
    /\ memo' # memo
    /\ UNCHANGED <<memoPage, homePage, notMemoVars>>

MemoStep ==
    \/ MemoBegin
    \/ MemoPrecheck
    \/ MemoGetDeal
    \/ MemoGenerated
    \/ MemoWrite
    \/ MemoHome
    \/ MemoThrow
    \/ MemoPollTick

\* ------------------------------------------------------ worker dispatch route
NumDispatchWorkers == 2
DispatchWorkers == 1..NumDispatchWorkers

\* the keys of HANDLERS
JobTypes ==
    {"GCAL_SYNC", "ASANA_PROCESS", "STAGE_ACTION",
     "RESEARCH_AGENT", "RESEARCH_BATCH", "MEMO_GENERATE"}

\* req.body.jobType: absent, a key of HANDLERS, a name nothing defines, or a
\* name every object literal inherits from Object.prototype
EnvelopeJobTypes == JobTypes \cup {Null, "NO_SUCH_JOB", "toString", "__proto__"}
EnvelopeTenants == {Null, "tenant"}
EnvelopePayloads == {Null, "payload"}

Undefined == [kind |-> "undefined", name |-> Null]

\* HANDLERS[jobType]: property lookup on an object literal, own keys first, then
\* the prototype chain (toString is a function, __proto__ is the prototype object)
LookupHandler(jobType) ==
    IF jobType \in JobTypes THEN [kind |-> "handler", name |-> jobType]
    ELSE IF jobType = "toString"
         THEN [kind |-> "function", name |-> "Object.prototype.toString"]
    ELSE IF jobType = "__proto__"
         THEN [kind |-> "object", name |-> "Object.prototype"]
    ELSE Undefined

IdleWorker ==
    [pc |-> "idle", jobType |-> Null, tenantId |-> Null, payload |-> Null,
     handler |-> Undefined, outcome |-> Null, code |-> 0]

InitWorkers == dispatch = [w \in DispatchWorkers |-> IdleWorker]

\* POST /tasks/dispatch up to the call of the handler: the two 400 rejections
DispatchBegin(w, jobType, tenantId, payload) ==
    /\ dispatch[w].pc = "idle"
    /\ LET req == [IdleWorker EXCEPT !.jobType = jobType, !.tenantId = tenantId,
                                     !.payload = payload]
           handler == LookupHandler(jobType)
       IN  dispatch' = [dispatch EXCEPT ![w] =
              IF jobType = Null \/ tenantId = Null \/ payload = Null
                 \/ handler = Undefined
              THEN [req EXCEPT !.pc = "replied", !.code = 400]
              ELSE [req EXCEPT !.pc = "running", !.handler = handler]]
    /\ UNCHANGED notWorkerVars

\* await handler(tenantId, payload) resolved: 200
DispatchReturn(w) ==
    /\ dispatch[w].pc = "running"
    /\ dispatch[w].handler.kind \in {"handler", "function"}
    /\ dispatch' = [dispatch EXCEPT ![w].pc = "replied", ![w].outcome = "returned",
                                    ![w].code = 200]
    /\ UNCHANGED notWorkerVars

\* await handler(tenantId, payload) threw, the handler itself or the call of a
\* value that is not a function: 500
DispatchThrow(w) ==
    /\ dispatch[w].pc = "running"
    /\ dispatch[w].handler.kind \in {"handler", "object"}
    /\ dispatch' = [dispatch EXCEPT ![w].pc = "replied", ![w].outcome = "threw",
                                    ![w].code = 500]
    /\ UNCHANGED notWorkerVars

\* the response is sent and the worker takes the next request
DispatchDone(w) ==
    /\ dispatch[w].pc = "replied"
    /\ dispatch' = [dispatch EXCEPT ![w] = IdleWorker]
    /\ UNCHANGED notWorkerVars

DispatchStep(w) ==
    \/ \E jobType \in EnvelopeJobTypes, tenantId \in EnvelopeTenants,
          payload \in EnvelopePayloads : DispatchBegin(w, jobType, tenantId, payload)
    \/ DispatchReturn(w)
    \/ DispatchThrow(w)
    \/ DispatchDone(w)

\* ------------------------------------------- CALENDAR_SYNC: the event's title
\* a title is a sequence of tokens: a word, a run of white space, a dash, the tag
\* U+2014 (written here in ASCII) and the hyphen-minus
EmDash == "--"
Hyphen == "-"
Dashes == {EmDash, Hyphen}
DealTags == {"[deal]", "[DEAL]"}
Space == " "
CompanyNames == {<<"Acme">>, <<"Acme", Space, "Labs">>, <<"Acme", Hyphen, "Labs">>}
FounderNames == {<<"Jane">>, <<"Jane", Space, "Doe">>, <<"Jane", Hyphen, "Doe">>}
Gaps == {<<>>, <<Space>>}

\* "<company> <dash> <founder> [deal]"
FormTitle(company, gap1, dash, gap2, founder, tag) ==
    company \o gap1 \o <<dash>> \o gap2 \o founder \o <<Space, tag>>

FormTitles ==
    {FormTitle(c, g1, d, g2, f, t) :
        c \in CompanyNames, g1 \in Gaps, d \in Dashes, g2 \in Gaps,
        f \in FounderNames, t \in DealTags}

\* titles of other shapes: no separator, the tag in front, the tag in the
\* description only
OtherTitles ==
    {<<"Acme", Space, "[deal]">>,
     <<"[deal]", Space, "Acme", Space, EmDash, Space, "Jane">>,
     <<"Acme", Space, EmDash, Space, "Jane">>}

Titles == FormTitles \cup OtherTitles
Attendees == {Null, "jane@acme.test"}

RECURSIVE Text(_)
Text(tokens) == IF tokens = <<>> THEN "" ELSE Head(tokens) \o Text(Tail(tokens))

\* String.prototype.trim
RECURSIVE TrimStart(_)
TrimStart(s) == IF s # <<>> /\ Head(s) = Space THEN TrimStart(Tail(s)) ELSE s
RECURSIVE TrimEnd(_)
TrimEnd(s) ==
    IF s # <<>> /\ s[Len(s)] = Space THEN TrimEnd(SubSeq(s, 1, Len(s) - 1)) ELSE s
Trim(s) == TrimEnd(TrimStart(s))

HasTag(s) == \E i \in DOMAIN s : s[i] \in DealTags

\* summary.includes('[deal]') || description.includes('[deal]'), lower-cased
IsDealEvent(title, tagInDescription) == HasTag(title) \/ tagInDescription

\* summary.match(/^(.+?)\s*[<U+2014>\-]\s*(.+)$/): the lazy first group stops at the
\* first dash that has something before it and something after it
DashAt(s) == {p \in 2..(Len(s) - 1) : s[p] \in Dashes}
DashMatch(s) ==
    IF DashAt(s) = {} THEN Null
    ELSE LET p == MinOf(DashAt(s))
         IN  [first |-> SubSeq(s, 1, p - 1), second |-> SubSeq(s, p + 1, Len(s))]

ParseCalendlyEvent(summary, attendee) ==
    IF DashAt(summary) # {}
    THEN [companyName |-> Trim(DashMatch(summary).first),
          founderName |-> Trim(DashMatch(summary).second)]
    ELSE [companyName |-> summary,
          founderName |-> IF attendee = Null THEN <<>> ELSE <<attendee>>]

\* replace(/\s*\[deal\]\s*/gi, ''): the tag goes, with the white space around it
StripDealTag(s) ==
    FilterSeq(s, {i \in DOMAIN s :
        /\ s[i] \notin DealTags
        /\ ~(s[i] = Space /\ i > 1 /\ s[i - 1] \in DealTags)
        /\ ~(s[i] = Space /\ i < Len(s) /\ s[i + 1] \in DealTags)})

\* `field || undefined`: the empty string is stored as NULL
OrUndefined(s) == IF s = <<>> THEN Null ELSE Text(s)

NoParse == [pc |-> "idle", title |-> <<>>, attendee |-> Null,
            companyName |-> <<>>, founderName |-> <<>>]
InitParse == parse = NoParse

\* the loop takes up a deal-tagged event e1 of the primary calendar
ParseBegin(title, tagInDescription, attendee) ==
    /\ parse.pc \in {"idle", "stored"}
    /\ IsDealEvent(title, tagInDescription)
    /\ parse' = [NoParse EXCEPT !.pc = "parse", !.title = title, !.attendee = attendee]
    /\ UNCHANGED <<deals, notParseVars>>

ParseEvent ==
    /\ parse.pc = "parse"
    /\ LET parsed == ParseCalendlyEvent(parse.title, parse.attendee)
       IN  parse' = [parse EXCEPT !.pc = "strip",
                                  !.companyName = parsed.companyName,
                                  !.founderName = parsed.founderName]
    /\ UNCHANGED <<deals, notParseVars>>

ParseStrip ==
    /\ parse.pc = "strip"
    /\ parse' = [parse EXCEPT !.pc = "upsert",
                              !.companyName = Trim(StripDealTag(@))]
    /\ UNCHANGED <<deals, notParseVars>>

ParseUpsert ==
    /\ parse.pc = "upsert"
    /\ deals' = UpsertDeal(deals, "primary", "e1", EventOf("e1").ical,
                           OrUndefined(parse.companyName), OrUndefined(parse.founderName))
    /\ parse' = [parse EXCEPT !.pc = "stored"]
    /\ UNCHANGED notParseVars

ParseStep ==
    \/ \E title \in Titles, tagInDescription \in BOOLEAN, attendee \in Attendees :
          ParseBegin(title, tagInDescription, attendee)
    \/ ParseEvent
    \/ ParseStrip
    \/ ParseUpsert

\* ------------------------------------------------------------- housekeeping
\* cleanupOldKeys(7) and cleanupExpiredWatches(24) of POST /admin/housekeeping
KeyRetentionDays == 7
WatchRetentionHours == 24

\* the scheduler's daily POST /admin/housekeeping; either delete may throw,
\* which ends the handler with a 500 and keeps what was deleted before
Housekeeping ==
    /\ \/ /\ idempotency_keys' = CleanupOldKeys(idempotency_keys, KeyRetentionDays)
          /\ gcal_watches' = CleanupExpiredWatches(gcal_watches, WatchRetentionHours)
       \/ /\ idempotency_keys' = CleanupOldKeys(idempotency_keys, KeyRetentionDays)
          /\ UNCHANGED gcal_watches
       \/ UNCHANGED <<idempotency_keys, gcal_watches>>
    /\ UNCHANGED <<now, nextChannel, admin, stopCalls, deals, sync, workspaces, tasks,
                   workflow_runs, stage, queue, admitted, gcalQueue, batch, procVars,
                   pingVars, hookVars, workerVars>>

\* a day passes
Tick ==
    /\ now < MaxDay
    /\ now' = now + 1
    /\ UNCHANGED <<gcal_watches, nextChannel, admin, stopCalls, deals, sync,
                   workspaces, tasks, stageVars, gcalQueue, batch, procVars,
                   pingVars, hookVars, workerVars>>

InitAdmin ==
    /\ now = 0
    /\ gcal_watches = <<>>
    /\ nextChannel = 0
    /\ admin = [w \in AdminWorkers |-> Idle]
    /\ stopCalls = {}

Init ==
    /\ InitAdmin
    /\ InitSyncJobs
    /\ InitStageJobs
    /\ InitProcJobs
    /\ InitPings
    /\ InitHooks
    /\ InitWorkers
    /\ InitMemo
    /\ InitParse
    /\ researchPage = <<>>
    /\ deals = <<>>

\* ------------------------------------------------------------------ claims
\* C4: after any number of CALENDAR_SYNC executions, sequential or concurrent,
\* there is at most one deals row per (calendar_id, event_id).
C4_OneDealPerEvent ==
    \A i, k \in DOMAIN deals :
        (deals[i].gcal_calendar_id = deals[k].gcal_calendar_id
         /\ deals[i].gcal_event_id = deals[k].gcal_event_id) => i = k

C4_Witness ==
    \E j, k \in SyncJobs :
        /\ j # k
        /\ sync[j].pc = "notion" /\ sync[k].pc = "notion"
        /\ sync[j].deal = sync[k].deal

Count(made, d) == Cardinality({m \in made : m[1] = d})

\* C9: however often the same deal event is processed, there is one deals row
\* for it and its materialization (document workspace, task record) is
\* performed at most once.
C9_MaterializedOnce ==
    /\ C4_OneDealPerEvent
    /\ \A d \in DOMAIN deals : Count(workspaces, d) <= 1 /\ Count(tasks, d) <= 1

\* C5: a workflow run that has reached a terminal status never changes status
\* again, whatever completeRun, requestCancellation or a redelivered
\* STAGE_ACTION does, and finished_at is set exactly on the terminal rows.
C5_TerminalRunsStay ==
    /\ [](\A i \in DOMAIN workflow_runs :
            (workflow_runs[i].finished_at # <<>>) <=> (workflow_runs[i].status \in Terminal))
    /\ [][\A i \in DOMAIN workflow_runs :
            workflow_runs[i].status \in Terminal =>
                workflow_runs'[i].status = workflow_runs[i].status]_vars

\* a closed IN_DILIGENCE run, and a later PASS action that requested
\* cancellation on the deal and closed its own run
C5_Witness ==
    \E i, j \in DOMAIN workflow_runs :
        /\ i < j
        /\ workflow_runs[i].stage_key = "IN_DILIGENCE"
        /\ workflow_runs[i].status \in {"succeeded", "failed"}
        /\ workflow_runs[i].finished_at # <<>>
        /\ workflow_runs[j].stage_key = "PASS"
        /\ workflow_runs[j].cancel_requested
        /\ workflow_runs[j].status = "succeeded"

\* C6 as stated: a key that claimKey has admitted once is never admitted
\* again, housekeeping included.
C6_KeyAdmittedOnce ==
    \A a \in admitted : a[3] = 0

\* C6: claimKey(k) returns false for as long as the row of k exists; the row
\* goes only when housekeeping finds it more than KeyRetentionDays old, so two
\* admissions of one key lie more than KeyRetentionDays apart.
C6_ReadmittedOnlyAfterRetention ==
    /\ [](\A a, b \in admitted :
            (a[1] = b[1] /\ a[3] < b[3]) => b[2] - a[2] > KeyRetentionDays)
    /\ [][\A r \in idempotency_keys :
            r \notin idempotency_keys' => r.created_at < now - KeyRetentionDays]_vars

\* a ping admitted a second time, after housekeeping removed its key
C6_Witness ==
    \E a \in admitted : a[3] = 1 /\ HasKey(idempotency_keys, a[1])

\* C7: once the queue is done with every delivery of a stage action whose
\* deal resolves (answered 200), its downstream job has been enqueued exactly
\* once.
C7_DownstreamExactlyOnce ==
    \A env \in StageEnvelopes :
        ( /\ Downstream(env.stageKey) # Null
          /\ GetDealByAsanaTask(deals, env.taskGid) # 0
          /\ \E s \in StageJobs : stage[s].env = env
          /\ \A s \in StageJobs : stage[s].env = env => stage[s].pc = "acked" )
        => Cardinality({q \in queue : /\ q.src = KeyOf(env)
                                      /\ q.jobType = Downstream(env.stageKey)}) = 1

\* the cancellations a step of stage action s issued on deal d
IssuesCancellation(s) ==
    \/ stage[s].pc = "cancel" /\ stage'[s].pc = "run"
    \/ /\ stage[s].pc = "dispatch" /\ stage'[s].pc = "complete"
       /\ stage[s].env.stageKey \in {"PASS", "ARCHIVE"}

\* C8: when a stage action requests cancellation on a deal whose
\* RESEARCH_BATCH is still outstanding, cancel_requested is true afterwards
\* on the run the batch polls.
C8_CancelReachesBatchRun ==
    [][\A s \in StageJobs : IssuesCancellation(s) =>
        \A q \in queue :
            ( /\ q.jobType = "RESEARCH_BATCH"
              /\ q.dealId = stage[s].deal
              /\ ~(batch.runId = q.runId /\ batch.pc \in {"returned", "threw"}) )
            => workflow_runs'[q.runId].cancel_requested]_vars

\* the agents that succeeded, in the fixed order
SucceededInOrder == SelectSeq(RESEARCH_ORDER, LAMBDA a : batch.agent[a] = "ok")

\* C11 as stated: the sections appended by a batch that ran its agents are
\* exactly the fixed order restricted to the agents that succeeded.
C11_SectionsAreAllSucceeded ==
    (batch.pc = "returned" /\ \A a \in Agents : batch.agent[a] # "pending")
        => batch.page = SucceededInOrder

\* C11: the sections appended to the research page of the deal are the fixed
\* order restricted to the agents that succeeded and whose append did not
\* fail; an agent's failure changes no peer and does not trigger the abort.
C11_SectionsInFixedOrder ==
    /\ [](LET ran == batch.pc = "returned" /\ \A a \in Agents : batch.agent[a] # "pending"
          IN  /\ batch.lost \subseteq {a \in Agents : batch.agent[a] = "ok"}
              /\ batch.page =
                    IF ran /\ HasResearchPage(deals, batch.dealId)
                    THEN SelectSeq(SucceededInOrder, LAMBDA a : a \notin batch.lost)
                    ELSE <<>>)
    /\ [][\A a \in Agents :
            (batch.agent[a] = "inflight" /\ batch'.agent[a] = "failed") =>
                /\ batch'.aborted = batch.aborted
                /\ \A b \in Agents \ {a} : batch'.agent[b] = batch.agent[b]]_vars

\* a batch in which the first agent failed, later ones succeeded and were
\* written, and one append was lost
C11_Witness ==
    /\ batch.pc = "returned"
    /\ batch.agent[RESEARCH_ORDER[1]] = "failed"
    /\ Len(batch.page) >= 2
    /\ batch.lost # {}


\* the batch observed cancel_requested and short-circuited: at its pre-check,
\* or at a poll tick that triggered the abort handle
BatchShortCircuited ==
    \/ batch.pc = "returned" /\ \A a \in Agents : batch.agent[a] = "pending"
    \/ batch.aborted

\* C12: a workflow run whose batch observed cancel_requested and
\* short-circuited is closed as canceled, never as succeeded.
C12_CancelledRunClosesCanceled ==
    ( /\ BatchShortCircuited
      /\ batch.runId \in DOMAIN workflow_runs
      /\ workflow_runs[batch.runId].status \in Terminal )
    => workflow_runs[batch.runId].status = "canceled"

\* the step in which dispatch j runs the upsert of upsertAndDetectChange after
\* its SELECT found the stored section equal to the fetched one
StableUpsert(j) ==
    procs[j].pc = "upsert" /\ procs'[j].pc = "returned" /\ procs[j].stable

\* the rows without updated_at
TaskStateFields(tbl) ==
    {[task_gid |-> r.task_gid, project_gid |-> r.project_gid,
      last_seen_section_gid |-> r.last_seen_section_gid,
      last_processed_modified_at |-> r.last_processed_modified_at,
      last_triggered_stage |-> r.last_triggered_stage] : r \in tbl}

\* C13 as stated: a dispatch whose fetched section equals the stored one
\* enqueues nothing and leaves the task-state row as it was.
C13_StableDispatchLeavesRow ==
    [][\A j \in ProcJobs : StableUpsert(j) =>
            /\ stageQueue' = stageQueue
            /\ TaskStateFields(asana_task_state') = TaskStateFields(asana_task_state)]_vars

\* C13: a dispatch whose fetched section equals the stored one enqueues
\* nothing and never touches last_triggered_stage; its upsert rewrites
\* last_seen_section_gid with the fetched section and
\* last_processed_modified_at with the fetched modified_at, so a repeat with
\* the same fetched task leaves the row as the first one left it.
C13_StableDispatchRewritesRow ==
    /\ [](\A j \in ProcJobs : ~procs[j].changed => \A e \in stageQueue : e.by # j)
    /\ [][\A j \in ProcJobs : StableUpsert(j) =>
            /\ stageQueue' = stageQueue
            /\ \A r \in asana_task_state' :
                  /\ r.last_seen_section_gid = procs[j].section
                  /\ r.last_processed_modified_at = procs[j].modified
                  /\ \E q \in asana_task_state :
                         q.last_triggered_stage = r.last_triggered_stage
            /\ (\A q \in asana_task_state :
                    /\ q.last_seen_section_gid = procs[j].section
                    /\ q.last_processed_modified_at = procs[j].modified)
               => TaskStateFields(asana_task_state') = TaskStateFields(asana_task_state)]_vars

\* two dispatches found the section unchanged and returned, the later one
\* after the task had been edited in place
C13_Witness ==
    \E i, j \in ProcJobs :
        /\ i < j
        /\ procs[i].pc = "returned" /\ procs[i].stable /\ procs[i].wrote
        /\ procs[j].pc = "returned" /\ procs[j].stable /\ procs[j].wrote
        /\ procs[j].modified > procs[i].modified
        /\ \E r \in asana_task_state : r.last_processed_modified_at = procs[j].modified

\* C10 as stated: every poll tick that fires while cancel_requested is set
\* triggers the abort handle.
C10_EveryTickAborts ==
    batch.tick.flag => batch.aborted

\* C10: a poll tick that reads cancel_requested as set triggers the abort
\* handle, aborting the requests in flight, and stops the poller; once the
\* handle is triggered no LLM round trip starts and no tick fires.
C10_TickThatReadsAborts ==
    /\ []((batch.tick.readOk /\ batch.tick.flag) =>
            (/\ batch.aborted
             /\ ~batch.polling
             /\ \A a \in Agents : batch.agent[a] # "inflight"))
    /\ [][batch.aborted =>
            /\ batch'.tick = batch.tick
            /\ \A a \in Agents :
                   batch'.agent[a] = "inflight" => batch.agent[a] = "inflight"]_vars

\* the handle was triggered with requests in flight, and an agent launched
\* afterwards was refused without a round trip
C10_Witness ==
    /\ batch.aborted
    /\ \E a \in Agents : batch.agent[a] = "aborted"
    /\ \E a \in Agents : batch.agent[a] = "refused"


\* the admin service as a multi-worker server: requests overlap freely
NextWatch ==
    \E w \in AdminWorkers : AdminBegin(w) \/ AdminStep(w)

SpecWatch == Init /\ [][NextWatch]_vars

\* the admin service receiving one request at a time
NextAdminSeq ==
    \/ \E w \in AdminWorkers :
          (\A v \in AdminWorkers : admin[v].op = "idle") /\ AdminBegin(w)
    \/ \E w \in AdminWorkers : AdminStep(w)

SpecAdminSeq == Init /\ [][NextAdminSeq]_vars

\* ------------------------------------------------------- push-channel claims
RowOf(tbl, ch) == tbl[CHOOSE i \in DOMAIN tbl : tbl[i].channel_id = ch]
HasRow(tbl, ch) == \E i \in DOMAIN tbl : tbl[i].channel_id = ch

\* C1: for every calendar, in every reachable state of overlapping Start,
\* Replace and Stop requests, at most one gcal_watches row is active.
C1_AtMostOneActive ==
    \A cal \in Calendars : Cardinality(ActiveIdx(gcal_watches, cal)) <= 1

InReplace(w) ==
    admin[w].op = "replace" /\ admin[w].pc \in {"create", "copy", "mark", "stop", "done"}

IsPrefix(s, t) == Len(s) <= Len(t) /\ s = SubSeq(t, 1, Len(s))

\* the effects a Replace must have had, in order, given the row it replaces
ExpectedReplaceLog(old) ==
    IF old.sync_token = Null THEN <<"create", "mark", "stop">>
    ELSE <<"create", "copy", "mark", "stop">>

\* C2: while a Replace that found an active channel is under way, the calendar
\* has an active row in every intermediate state, and the effects of the
\* Replace happen in the order create, copy token, mark old replaced, stop old.
C2_ReplaceNoGapInOrder ==
    \A w \in AdminWorkers :
        InReplace(w) =>
            /\ ActiveIdx(gcal_watches, admin[w].cal) # {}
            /\ IsPrefix(admin[w].log, ExpectedReplaceLog(admin[w].old))
            /\ admin[w].pc = "done" => admin[w].log = ExpectedReplaceLog(admin[w].old)

C2_Witness ==
    \E w \in AdminWorkers :
        /\ InReplace(w) /\ admin[w].pc = "stop"
        /\ admin[w].log = <<"create", "copy", "mark">>

\* C3: when a Replace of active channel A holding sync_token T completes, the
\* new channel B is active with sync_token T, A is replaced, and the provider
\* stop was attempted on A; this is so whether or not that stop failed.
C3_ReplaceOutcome ==
    \A w \in AdminWorkers :
        (admin[w].op = "replace" /\ admin[w].pc = "done") =>
            /\ HasRow(gcal_watches, admin[w].chan)
            /\ RowOf(gcal_watches, admin[w].chan).status = "active"
            /\ RowOf(gcal_watches, admin[w].chan).sync_token = admin[w].old.sync_token
            /\ HasRow(gcal_watches, admin[w].old.channel_id)
            /\ RowOf(gcal_watches, admin[w].old.channel_id).status = "replaced"
            /\ admin[w].old.channel_id \in stopCalls
            /\ admin[w].stopOutcome \in {"ok", "error"}

C3_Witness ==
    \E w \in AdminWorkers :
        /\ admin[w].op = "replace" /\ admin[w].pc = "done"
        /\ admin[w].old.sync_token = "T1"
        /\ admin[w].stopOutcome = "error"
        /\ RowOf(gcal_watches, admin[w].chan).sync_token = "T1"

\* CALENDAR_SYNC jobs of one calendar whose channel was started, run by the
\* worker service concurrently
InitSync ==
    /\ now = 0
    /\ gcal_watches = CreateWatch(<<>>, "primary", 1, ResourceOf("primary"), Null)
    /\ nextChannel = 1
    /\ admin = [w \in AdminWorkers |-> Idle]
    /\ stopCalls = {}
    /\ InitSyncJobs
    /\ InitStageJobs
    /\ InitProcJobs
    /\ InitPings
    /\ InitHooks
    /\ InitWorkers
    /\ InitMemo
    /\ InitParse
    /\ researchPage = <<>>
    /\ deals = <<>>

NextSync ==
    \E j \in SyncJobs : SyncStep(j)

SpecSync == InitSync /\ [][NextSync]_vars

\* one CALENDAR_SYNC dispatch at a time, its token persistence taken statement
\* by statement, while one admin worker serves Replace and Stop requests
NextToken ==
    \/ \E j \in {1} :
          \/ \E cal \in Calendars, ch \in ChannelIds : SyncBegin(j, cal, ch)
          \/ SyncLoadAndFetch(j)
          \/ SyncFetchFail(j)
          \/ SyncUpsert(j)
          \/ SyncUpsertThrow(j)
          \/ SyncCreateNotion(j)
          \/ SyncCreateAsana(j)
          \/ SyncLookupActive(j)
          \/ SyncUpdateToken(j)
    \/ \E w \in {1} :
          \/ \E cal \in Calendars : ReplaceBegin(w, cal)
          \/ \E ch \in ChannelIds : StopBegin(w, ch)
          \/ ReplaceFind(w)
          \/ ReplaceCreate(w)
          \/ ReplaceCopyToken(w)
          \/ ReplaceMarkOld(w)
          \/ ReplaceStopOld(w)
          \/ ReplaceRespond(w)
          \/ StopFind(w)
          \/ StopMark(w)

SpecToken == InitSync /\ [][NextToken]_vars

\* STAGE_ACTION tasks for the task record of a materialized deal
Deal1 ==
    [id |-> 1, gcal_calendar_id |-> "primary", gcal_event_id |-> "e1",
     gcal_ical_uid |-> "u1",
     company_name |-> "Acme", founder_name |-> "Jane",
     asana_task_gid |-> TaskOfDeal1, notion_deal_page_id |-> <<1, 1>>,
     notion_urls |-> UrlsOf(<<1, 1>>),
     current_stage |-> "FIRST_MEETING"]

InitStage ==
    /\ now = 0
    /\ gcal_watches = UpdateSyncToken(
            CreateWatch(<<>>, "primary", 1, ResourceOf("primary"), Null), 1, "T1")
    /\ nextChannel = 1
    /\ admin = [w \in AdminWorkers |-> Idle]
    /\ stopCalls = {}
    /\ sync = [j \in SyncJobs |-> NoJob]
    /\ workspaces = {<<1, 1>>}
    /\ tasks = {<<1, 1>>}
    /\ deals = <<Deal1>>
    /\ InitStageJobs
    /\ InitProcJobs
    /\ InitPings
    /\ InitHooks
    /\ InitWorkers
    /\ InitMemo
    /\ InitParse
    /\ researchPage = <<>>

NextStage ==
    \E s \in StageJobs : StageStep(s)

SpecStage == InitStage /\ [][NextStage]_vars

\* STAGE_ACTION jobs for every stage, handleInDiligence taken step by step
SwitchEnvelopes == {EnvInDiligence, EnvICReview, EnvPass, EnvFirstMeeting, EnvArchive}

NextSwitch ==
    \E s \in StageJobs :
        \/ \E env \in SwitchEnvelopes : StageEnqueue(s, env)
        \/ StageDeliver(s)
        \/ StageClaim(s)
        \/ StageResolve(s)
        \/ StageCancel(s)
        \/ StageCreateRun(s)
        \/ StageClearPage(s)
        \/ StageSpawnBatch(s)
        \/ StageDispatchOther(s)
        \/ StageComplete(s)
        \/ StageThrowEarly(s)
        \/ StageThrowInTry(s)

SpecSwitch == InitStage /\ [][NextSwitch]_vars

\* push notifications over the days, with the daily housekeeping, after a
\* Start and a Replace on the calendar
InitKeys ==
    /\ now = 0
    /\ gcal_watches =
         UpdateWatchStatus(
            UpdateSyncToken(
               CreateWatch(
                  UpdateSyncToken(
                     CreateWatch(<<>>, "primary", 1, ResourceOf("primary"), "ct"),
                     1, "T1"),
                  "primary", 2, ResourceOf("primary"), "ct"),
               2, "T1"),
            1, "replaced")
    /\ nextChannel = 2
    /\ admin = [w \in AdminWorkers |-> Idle]
    /\ stopCalls = {1}
    /\ InitSyncJobs
    /\ InitStageJobs
    /\ InitProcJobs
    /\ InitPings
    /\ InitHooks
    /\ InitWorkers
    /\ InitMemo
    /\ InitParse
    /\ researchPage = <<>>
    /\ deals = <<>>

NextKeys == ProviderPing \/ Housekeeping \/ Tick

SpecKeys == InitKeys /\ [][NextKeys]_vars

\* the worker service: dispatch requests of the queues overlap freely
NextDispatch == \E w \in DispatchWorkers : DispatchStep(w)

SpecDispatch == Init /\ [][NextDispatch]_vars

\* the task-manager webhook alone
NextHook == Hook

SpecHook == Init /\ [][NextHook]_vars

\* the calendar webhook alone: overlapping pings on the channels of one calendar
NextPing == Ping

SpecPing == InitKeys /\ [][NextPing]_vars

\* a RESEARCH_BATCH against the stage actions of its deal: the IN_DILIGENCE
\* action has enqueued the batch and is about to close its run, the PASS
\* action is about to request cancellation
InitBatch ==
    /\ now = 0
    /\ gcal_watches = UpdateSyncToken(
            CreateWatch(<<>>, "primary", 1, ResourceOf("primary"), Null), 1, "T1")
    /\ nextChannel = 1
    /\ admin = [w \in AdminWorkers |-> Idle]
    /\ stopCalls = {}
    /\ sync = [j \in SyncJobs |-> NoJob]
    /\ workspaces = {<<1, 1>>}
    /\ tasks = {<<1, 1>>}
    /\ deals = UpdateDealStage(<<Deal1>>, 1, "PASS")
    /\ idempotency_keys = ClaimKey(ClaimKey({}, KeyOf(EnvInDiligence)), KeyOf(EnvPass))
    /\ admitted = {<<KeyOf(EnvInDiligence), 0, 0>>, <<KeyOf(EnvPass), 0, 0>>}
    /\ workflow_runs = CreateRun(<<>>, 1, TaskOfDeal1, "IN_DILIGENCE")
    /\ queue = {[jobType |-> "RESEARCH_BATCH", runId |-> 1, dealId |-> 1,
                 src |-> KeyOf(EnvInDiligence)]}
    /\ stage = [s \in StageJobs |->
                 IF s = 1 THEN [NoStageJob EXCEPT !.pc = "complete", !.env = EnvInDiligence,
                                                  !.attempts = 1, !.deal = 1, !.run = 1]
                 ELSE IF s = 2 THEN [NoStageJob EXCEPT !.pc = "cancel", !.env = EnvPass,
                                                       !.attempts = 1, !.deal = 1]
                 ELSE NoStageJob]
    /\ gcalQueue = {}
    /\ batch = NoBatch
    /\ InitProcJobs
    /\ InitPings
    /\ InitHooks
    /\ InitWorkers
    /\ InitMemo
    /\ InitParse
    /\ researchPage = <<>>

NextBatch ==
    \/ BatchStep
    \/ \E s \in StageJobs : StageCancel(s)
    \/ \E s \in StageJobs : StageComplete(s)

SpecBatch == InitBatch /\ [][NextBatch]_vars

\* a MEMO_GENERATE against the stage actions of its deal: the IC_REVIEW action
\* has enqueued the memo and is about to close its run, the PASS action is
\* about to request cancellation
InitMemoRun ==
    /\ now = 0
    /\ gcal_watches = UpdateSyncToken(
            CreateWatch(<<>>, "primary", 1, ResourceOf("primary"), Null), 1, "T1")
    /\ nextChannel = 1
    /\ admin = [w \in AdminWorkers |-> Idle]
    /\ stopCalls = {}
    /\ sync = [j \in SyncJobs |-> NoJob]
    /\ workspaces = {<<1, 1>>}
    /\ tasks = {<<1, 1>>}
    /\ deals = UpdateDealStage(<<Deal1>>, 1, "PASS")
    /\ idempotency_keys = ClaimKey(ClaimKey({}, KeyOf(EnvICReview)), KeyOf(EnvPass))
    /\ admitted = {<<KeyOf(EnvICReview), 0, 0>>, <<KeyOf(EnvPass), 0, 0>>}
    /\ workflow_runs = CreateRun(<<>>, 1, TaskOfDeal1, "IC_REVIEW")
    /\ queue = {[jobType |-> "MEMO_GENERATE", runId |-> 1, dealId |-> 1,
                 src |-> KeyOf(EnvICReview)]}
    /\ stage = [s \in StageJobs |->
                 IF s = 1 THEN [NoStageJob EXCEPT !.pc = "complete", !.env = EnvICReview,
                                                  !.attempts = 1, !.deal = 1, !.run = 1]
                 ELSE IF s = 2 THEN [NoStageJob EXCEPT !.pc = "cancel", !.env = EnvPass,
                                                       !.attempts = 1, !.deal = 1]
                 ELSE NoStageJob]
    /\ gcalQueue = {}
    /\ batch = NoBatch
    /\ InitProcJobs
    /\ InitPings
    /\ InitHooks
    /\ InitWorkers
    /\ InitMemo
    /\ InitParse
    /\ researchPage = <<>>

NextMemo ==
    \/ MemoStep
    \/ \E s \in StageJobs : StageCancel(s)
    \/ \E s \in StageJobs : StageComplete(s)

SpecMemo == InitMemoRun /\ [][NextMemo]_vars

\* a RESEARCH_BATCH and a MEMO_GENERATE of the same deal still in the queue:
\* the IC_REVIEW action, entered from IN_DILIGENCE, has flagged the research
\* run and opened the memo run; the PASS action is about to request
\* cancellation
InitPrecheck ==
    /\ now = 0
    /\ gcal_watches = UpdateSyncToken(
            CreateWatch(<<>>, "primary", 1, ResourceOf("primary"), Null), 1, "T1")
    /\ nextChannel = 1
    /\ admin = [w \in AdminWorkers |-> Idle]
    /\ stopCalls = {}
    /\ sync = [j \in SyncJobs |-> NoJob]
    /\ workspaces = {<<1, 1>>}
    /\ tasks = {<<1, 1>>}
    /\ deals = UpdateDealStage(<<Deal1>>, 1, "PASS")
    /\ idempotency_keys = ClaimKey(ClaimKey(ClaimKey({}, KeyOf(EnvInDiligence)),
                                            KeyOf(EnvICReview)), KeyOf(EnvPass))
    /\ admitted = {<<KeyOf(EnvInDiligence), 0, 0>>, <<KeyOf(EnvICReview), 0, 0>>,
                   <<KeyOf(EnvPass), 0, 0>>}
    /\ workflow_runs = CreateRun(
            RequestCancellation(CreateRun(<<>>, 1, TaskOfDeal1, "IN_DILIGENCE"), 1),
            1, TaskOfDeal1, "IC_REVIEW")
    /\ queue = {[jobType |-> "RESEARCH_BATCH", runId |-> 1, dealId |-> 1,
                 src |-> KeyOf(EnvInDiligence)],
                [jobType |-> "MEMO_GENERATE", runId |-> 2, dealId |-> 1,
                 src |-> KeyOf(EnvICReview)]}
    /\ stage = [s \in StageJobs |->
                 IF s = 1 THEN [NoStageJob EXCEPT !.pc = "cancel", !.env = EnvPass,
                                                  !.attempts = 1, !.deal = 1]
                 ELSE NoStageJob]
    /\ gcalQueue = {}
    /\ batch = NoBatch
    /\ InitProcJobs
    /\ InitPings
    /\ InitHooks
    /\ InitWorkers
    /\ InitMemo
    /\ InitParse
    /\ researchPage = <<>>

NextPrecheck ==
    \/ BatchBegin
    \/ BatchPrecheck
    \/ BatchThrow
    \/ MemoStep
    \/ \E s \in StageJobs : StageCancel(s)

SpecPrecheck == InitPrecheck /\ [][NextPrecheck]_vars

\* the statements of the deals repository, applied in any order to the deals
\* of two events with any input fields
DealEvents == {"e1", "e2"}
IcalUids == {Null, "u1"}
DealCompanies == {Null, "Acme"}
DealFounders == {Null, "Jane"}
DealStages == {"FIRST_MEETING", "IN_DILIGENCE"}

DealsUpsert ==
    /\ \E ev \in DealEvents, ical \in IcalUids, company \in DealCompanies,
          founder \in DealFounders :
          deals' = UpsertDeal(deals, "primary", ev, ical, company, founder)
    /\ UNCHANGED <<notParseVars, parse>>

DealsUpdateNotion ==
    /\ \E d \in DOMAIN deals : deals' = UpdateDealNotion(deals, d, <<d, 1>>)
    /\ UNCHANGED <<notParseVars, parse>>

DealsUpdateAsana ==
    /\ \E d \in DOMAIN deals : deals' = UpdateDealAsana(deals, d, <<d, 1>>)
    /\ UNCHANGED <<notParseVars, parse>>

DealsUpdateStage ==
    /\ \E d \in DOMAIN deals, st \in DealStages : deals' = UpdateDealStage(deals, d, st)
    /\ UNCHANGED <<notParseVars, parse>>

NextDeals ==
    \/ DealsUpsert
    \/ DealsUpdateNotion
    \/ DealsUpdateAsana
    \/ DealsUpdateStage

SpecDeals == Init /\ [][NextDeals]_vars

\* the statements of the workflow_runs repository, applied in any order to
\* the runs of two deals
MaxRuns == 3
RunDeals == {1, 2}

RunsCreate ==
    /\ Len(workflow_runs) < MaxRuns
    /\ \E d \in RunDeals :
          workflow_runs' = CreateRun(workflow_runs, d, <<d, 1>>, "IN_DILIGENCE")
    /\ UNCHANGED <<notStageVars, deals, idempotency_keys, stage, queue, admitted>>

RunsRequestCancellation ==
    /\ \E d \in RunDeals : workflow_runs' = RequestCancellation(workflow_runs, d)
    /\ UNCHANGED <<notStageVars, deals, idempotency_keys, stage, queue, admitted>>

RunsComplete ==
    /\ \E r \in DOMAIN workflow_runs, st \in Terminal :
          workflow_runs' = CompleteRun(workflow_runs, r, st)
    /\ UNCHANGED <<notStageVars, deals, idempotency_keys, stage, queue, admitted>>

NextRuns ==
    \/ RunsCreate
    \/ RunsRequestCancellation
    \/ RunsComplete

SpecRuns == Init /\ [][NextRuns]_vars

\* the CALENDAR_SYNC loop body applied to one event after another
SpecParse == Init /\ [][ParseStep]_vars

\* STAGE_ACTION jobs for every stage, each delivered once and none failing
NextCancel ==
    \E s \in StageJobs :
        \/ \E env \in SwitchEnvelopes : StageEnqueue(s, env)
        \/ StageDeliver(s)
        \/ StageClaim(s)
        \/ StageResolve(s)
        \/ StageCancel(s)
        \/ StageCreateRun(s)
        \/ StageDispatch(s)
        \/ StageComplete(s)

SpecCancel == InitStage /\ [][NextCancel]_vars

\* one section change, s1 to s2, of the task of deal 1, seen by TASKS_PROCESS
\* dispatches whose STAGE_ACTION jobs the worker then runs; nothing fails
InitPipeline ==
    /\ now = 0
    /\ gcal_watches = UpdateSyncToken(
            CreateWatch(<<>>, "primary", 1, ResourceOf("primary"), Null), 1, "T1")
    /\ nextChannel = 1
    /\ admin = [w \in AdminWorkers |-> Idle]
    /\ stopCalls = {}
    /\ sync = [j \in SyncJobs |-> NoJob]
    /\ workspaces = {<<1, 1>>}
    /\ tasks = {<<1, 1>>}
    /\ deals = <<Deal1>>
    /\ InitStageJobs
    /\ asanaTask = [section |-> "s2", modified_at |-> 1]
    /\ asana_task_state = UpsertTaskState({}, TaskOfDeal1, PipelineProject, "s1", 0)
    /\ procs = [j \in ProcJobs |-> NoProc]
    /\ stageQueue = {}
    /\ InitPings
    /\ InitHooks
    /\ InitWorkers
    /\ InitMemo
    /\ InitParse
    /\ researchPage = <<>>

\* the payload of a STAGE_ACTION job as tasksEnqueuer.enqueue sent it
PayloadOf(e) ==
    [taskGid |-> e.taskGid, stageKey |-> e.stageKey, sectionGid |-> e.sectionGid,
     modifiedAt |-> e.modifiedAt, previousStage |-> e.previousStage]

\* the queue holds the job TASKS_PROCESS dispatch e.by enqueued
StageTake(s, e) ==
    /\ stage[s].pc = "none"
    /\ \A i \in StageJobs : i < s => stage[i].pc # "none"
    /\ \A i \in StageJobs : stage[i].pc # "none" => stage[i].env # PayloadOf(e)
    /\ stage' = [stage EXCEPT ![s] = [NoStageJob EXCEPT !.pc = "queued",
                                                       !.env = PayloadOf(e),
                                                       !.born = now]]
    /\ UNCHANGED <<notStageVars, deals, idempotency_keys, workflow_runs, queue, admitted>>

StageTakeAny(s) == \E e \in stageQueue : StageTake(s, e)

NextPipeline ==
    \/ EditTask
    \/ \E j \in ProcJobs :
          \/ ProcFetch(j) \/ ProcSelect(j) \/ ProcUpsert(j)
          \/ ProcEnqueue(j) \/ ProcSetTriggered(j)
    \/ \E s \in StageJobs :
          \/ StageTakeAny(s)
          \/ StageDeliver(s) \/ StageClaim(s) \/ StageResolve(s)
          \/ StageCreateRun(s) \/ StageDispatch(s) \/ StageComplete(s)

SpecPipeline == InitPipeline /\ [][NextPipeline]_vars

\* TASKS_PROCESS dispatches served one at a time, while users move the task
\* between all sections of the project, the disabled one included
ProcAlone(j) ==
    /\ \A i \in ProcJobs \ {j} : procs[i].pc \in {"new", "returned", "threw"}
    /\ ProcStep(j)

NextSections ==
    \/ \E j \in ProcJobs : ProcAlone(j)
    \/ \E sec \in Sections \cup DisabledSections \cup {Null} : MoveTask(sec)
    \/ EditTask

SpecSections == Init /\ [][NextSections]_vars

\* TASKS_PROCESS dispatches for one task while users move and edit it
NextProc ==
    \/ \E j \in ProcJobs : ProcStep(j)
    \/ UserStep

SpecProc == Init /\ [][NextProc]_vars

Next ==
    \/ NextWatch \/ NextSync \/ NextStage \/ BatchStep \/ NextProc
    \/ Ping \/ Hook \/ NextDispatch \/ MemoStep \/ ParseStep \/ Housekeeping \/ Tick

Spec == Init /\ [][Next]_vars

\* ------------------------------------------------------------ ingress claims
JobsOfKey(k) ==
    Cardinality({j \in gcalQueue : j.idempotencyKey = k})
    + Cardinality({p \in pingPending : p.idempotencyKey = k})

\* a step of POST /webhooks/gcal for the ping (ch, res, st, msg, ct)
PingStep(ch, res, st, msg, ct) ==
    \/ GcalWebhook(ch, res, st, msg, ct)
    \/ \E p \in pingPending :
          p.idempotencyKey = GcalPingKey(ch, msg) /\ GcalEnqueue(p)

\* C14: however the pings on a known, matching channel interleave, each
\* (channel_id, message_number) gets at most one GCAL_SYNC job, and a ping whose
\* key is already claimed is answered 200 and enqueues nothing.
C14_OneJobPerPing ==
    /\ [](\A ch \in PingChannels, msg \in MessageNumbers :
             JobsOfKey(GcalPingKey(ch, msg)) <= 1)
    /\ [][\A ch \in PingChannels, res \in PingResources, st \in PingStates,
             msg \in MessageNumbers, ct \in PingTokens :
               (/\ PingAccepted(gcal_watches, ch, res, st, ct)
                /\ HasKey(idempotency_keys, GcalPingKey(ch, msg))
                /\ GcalWebhook(ch, res, st, msg, ct))
               => (/\ pingReply'.code = 200
                   /\ UNCHANGED <<gcalQueue, pingPending, idempotency_keys>>)]_vars

\* a replay has been answered after the first ping's job was enqueued
C14_Witness ==
    /\ pingReply.log = "duplicate ping, skipping"
    /\ pingReply.code = 200
    /\ \E j \in gcalQueue : j.channelId = 2

MissingHeaders(ch, res) == ch = 0 \/ res = Null

\* C15: the calendar webhook answers 400 only to a ping without channel_id or
\* resource_id; every other response, whatever failed, is 200.
C15_Only400OnMissingHeaders ==
    /\ [](pingReply.code \in {0, 200, 400})
    /\ [][\A ch \in PingChannels, res \in PingResources, st \in PingStates,
             msg \in MessageNumbers, ct \in PingTokens :
               (PingStep(ch, res, st, msg, ct) /\ pingReply' # pingReply)
               => /\ pingReply'.code = 400 => MissingHeaders(ch, res)
                  /\ ~MissingHeaders(ch, res) => pingReply'.code = 200]_vars

\* a ping without its headers has been refused after the queue failed a ping
\* that had claimed its key
C15_Witness ==
    /\ pingReply.code = 400
    /\ idempotency_keys # {}
    /\ gcalQueue = {}
    /\ pingPending = {}

\* C16: a ping with resource_state = "sync" is acknowledged 200 and changes
\* nothing, whatever its other headers are.
C16_SyncAlwaysAcknowledged ==
    [][\A ch \in PingChannels, res \in PingResources,
         msg \in MessageNumbers, ct \in PingTokens :
           GcalWebhook(ch, res, "sync", msg, ct)
           => /\ pingReply'.code = 200
              /\ UNCHANGED <<idempotency_keys, gcalQueue, pingPending>>]_vars

\* the token rule as the interface states it: a channel that has a token accepts
\* only pings that carry it
TokenDiffers(channelToken, watchToken) ==
    watchToken # Null /\ channelToken # watchToken

ShouldBeDropped(tbl, ch, res, ct) ==
    LET watch == GetWatchByChannelId(tbl, ch)
    IN  \/ watch = NoRow
        \/ watch.resource_id # res
        \/ TokenDiffers(ct, watch.channel_token)

\* C17: a ping whose channel has no active or replaced row, or whose
\* resource_id or channel_token differs from the row's (a missing token on a
\* channel that has one included), is answered 200, claims no key and enqueues
\* no job.
C17_MismatchedPingDropped ==
    [][\A ch \in PingChannels \ {0}, res \in PingResources \ {Null},
         msg \in MessageNumbers, ct \in PingTokens :
           (/\ ShouldBeDropped(gcal_watches, ch, res, ct)
            /\ GcalWebhook(ch, res, "exists", msg, ct))
           => /\ pingReply'.code = 200
              /\ UNCHANGED <<idempotency_keys, gcalQueue, pingPending>>]_vars

\* a request whose signature is the HMAC-SHA256 of its body under the stored secret
CorrectlySigned(stored, signature, body) ==
    stored # Null /\ signature = HmacHex(stored, body)

\* C18: in event mode a request that finds no stored secret, or whose signature
\* is not the HMAC-SHA256 of the raw body under the stored secret (wrong value,
\* wrong length, malformed, absent), is answered 401 and enqueues nothing.
C18_BadSignatureGets401 ==
    [][\A rawBody \in Bodies : \A hookSignature \in SignaturesFor(rawBody) :
          (/\ ~CorrectlySigned(integration, hookSignature, rawBody)
           /\ AsanaWebhook(Null, hookSignature, rawBody)
           /\ hookReply'.log # "handler error: getIntegration")
          => (hookReply'.code = 401 /\ UNCHANGED asanaQueue)]_vars

\* C19: when the handshake has been answered 200 with the secret echoed, that
\* secret is the one stored in the Integration row.
C19_EchoedSecretIsStored ==
    (hookReply.code = 200 /\ hookReply.echo # Null) => integration = hookReply.echo

\* the events of resource type "task" in a body, parsed or not
TaskTypeEvents(body) ==
    IF body = "not json" THEN <<>>
    ELSE SelectSeq(EventsOf(body), LAMBDA e : e.resource_type = "task")

\* the tasks that were given a job by the step
GidsAdded ==
    [i \in 1..(Len(asanaQueue') - Len(asanaQueue)) |->
        asanaQueue'[Len(asanaQueue) + i].taskGid]

\* C20 as stated: a correctly signed batch whose signature was verified is
\* answered 200 and gets exactly one job per event of resource type "task",
\* parse and enqueue failures included.
C20_OneJobPerTaskEvent ==
    [][\A rawBody \in Bodies : \A hookSignature \in SignaturesFor(rawBody) :
          (/\ CorrectlySigned(integration, hookSignature, rawBody)
           /\ AsanaWebhook(Null, hookSignature, rawBody)
           /\ hookReply'.log # "handler error: getIntegration")
          => /\ hookReply'.code = 200
             /\ Len(asanaQueue') >= Len(asanaQueue)
             /\ SubSeq(asanaQueue', 1, Len(asanaQueue)) = asanaQueue
             /\ Len(GidsAdded) = Len(TaskTypeEvents(rawBody))]_vars

\* the gids of the task events that carry one, in the order of the batch
TaskGidsOf(body) ==
    LET named == SelectSeq(TaskTypeEvents(body), LAMBDA e : e.gid # Null)
    IN  [i \in 1..Len(named) |-> named[i].gid]

\* C20: a correctly signed batch is always answered 200 and only appends jobs.
\* When nothing fails it gets one job per task event that carries a gid, in
\* order; when the lookup or the parse fails, or for a heartbeat, it gets none;
\* when an enqueue fails it gets the jobs of the events before the failing one.
C20_JobsUpToFirstFailure ==
    [][\A rawBody \in Bodies : \A hookSignature \in SignaturesFor(rawBody) :
          (/\ CorrectlySigned(integration, hookSignature, rawBody)
           /\ AsanaWebhook(Null, hookSignature, rawBody))
          => /\ hookReply'.code = 200
             /\ Len(asanaQueue') >= Len(asanaQueue)
             /\ SubSeq(asanaQueue', 1, Len(asanaQueue)) = asanaQueue
             /\ \A i \in 1..Len(GidsAdded) :
                   /\ asanaQueue'[Len(asanaQueue) + i].projectGid = PipelineProject
                   /\ asanaQueue'[Len(asanaQueue) + i].action = "changed"
             /\ hookReply'.log = "events enqueued" => GidsAdded = TaskGidsOf(rawBody)
             /\ hookReply'.log = "handler error: enqueue"
                   => /\ Len(GidsAdded) < Len(TaskGidsOf(rawBody))
                      /\ GidsAdded = SubSeq(TaskGidsOf(rawBody), 1, Len(GidsAdded))
             /\ hookReply'.log \notin {"events enqueued", "handler error: enqueue"}
                   => GidsAdded = <<>>]_vars

\* an enqueue failed after the first task of a batch had its job
C20_Witness ==
    /\ hookReply.log = "handler error: enqueue"
    /\ hookReply.code = 200
    /\ Len(asanaQueue) = 1
    /\ asanaQueue[1].taskGid = "t1"

\* ------------------------------------------------------------ worker claims
Registered(jobType) == jobType \in JobTypes

\* C21: a dispatch is answered 400 exactly when the envelope lacks jobType,
\* tenantId or payload or names no registered job type, and then nothing is
\* called; 5xx exactly when the selected handler threw; 2xx exactly when it
\* returned.
C21_DispatchStatus ==
    \A w \in DispatchWorkers :
       dispatch[w].pc = "replied" =>
          LET d == dispatch[w]
              invalid == \/ d.jobType = Null \/ d.tenantId = Null \/ d.payload = Null
                         \/ ~Registered(d.jobType)
          IN  /\ d.code = 400 <=> invalid
              /\ d.code = 400 => d.outcome = Null
              /\ d.code = 500 <=> (~invalid /\ d.outcome = "threw")
              /\ d.code = 200 <=> (~invalid /\ d.outcome = "returned")

\* C22: dispatching an envelope again, as a retry or as a duplicate delivery,
\* leaves the same external effects as dispatching it once; for MEMO_GENERATE:
\* the memo page holds at most one memo and the deal home page at most one
\* callout, however often the task was delivered.
C22_RedeliveryAddsNothing ==
    Len(memoPage) <= 1 /\ Len(homePage) <= 1

\* C23: for a deal-tagged event titled "<company> <dash> <founder> [deal]", with a
\* dash or an em-dash as separator, the Deal row CALENDAR_SYNC stores has the
\* text before the separator as company and the text after it as founder, the
\* tag in neither
C23_TitleGivesCompanyAndFounder ==
    \A c \in CompanyNames, g1 \in Gaps, d \in Dashes, g2 \in Gaps,
       f \in FounderNames, t \in DealTags :
        (parse.pc = "stored" /\ parse.title = FormTitle(c, g1, d, g2, f, t))
            => LET row == deals[MinOf(DealIdx(deals, "primary", "e1"))]
               IN  /\ row.company_name = Text(c)
                   /\ row.founder_name = Text(f)

\* the step in which dispatch j leaves the handler, its upsert done
ProcExit(j) ==
    /\ procs[j].pc \in {"upsert", "enqueue", "trigger"}
    /\ procs'[j].pc \in {"returned", "threw"}
    /\ procs'[j].wrote

\* C24: a TASKS_PROCESS dispatch enqueues a STAGE_ACTION if and only if the
\* task-state row existed with a last seen section different from the fetched
\* one and the fetched section maps to an enabled pipeline section; otherwise
\* it enqueues nothing, and the fetched section is recorded as last seen.
C24_EnqueuesIffMovedToEnabledSection ==
    [][\A j \in ProcJobs : ProcExit(j) =>
          LET moved == /\ procs[j].changed
                       /\ GetStageForSection(PipelineProject, procs[j].section) # Null
          IN  /\ (\E e \in stageQueue' : e.by = j) <=> moved
              /\ ~moved => \A r \in asana_task_state' :
                                r.last_seen_section_gid = procs[j].section]_vars

\* C25: the task-state upsert reads the previous section and writes the new
\* one as one step: of two concurrent dispatches for the same task one gets as
\* previous value what the other wrote, so no two dispatches hold the same
\* stored section as the one the task has left, read before either of them
\* has written.
C25_NoTwoReadSameOldSection ==
    \A i, j \in ProcJobs :
        ( /\ i # j
          /\ procs[i].pc = "upsert" /\ procs[i].changed
          /\ procs[j].pc = "upsert" /\ procs[j].changed )
            => procs[i].previousSectionGid # procs[j].previousSectionGid

\* C26: however the TASKS_PROCESS dispatches for the task interleave, and
\* whatever modified_at each of them fetches, one section change makes
\* STAGE_ACTION create a run and enqueue its downstream job at most once.
C26_OneTransitionOneEffect ==
    /\ Len(workflow_runs) <= 1
    /\ Cardinality(queue) <= 1

\* the step in which STAGE_ACTION job s leaves the handler with a run opened
StageExit(s) ==
    stage[s].run # 0 /\ stage'[s].run = 0

\* C27: the workflow run a STAGE_ACTION opened is terminal when the handler
\* exits: succeeded when the handler returned, failed with the error recorded
\* when it threw.
C27_RunClosedAtExit ==
    [][\A s \in StageJobs : StageExit(s) =>
          LET r == workflow_runs'[stage[s].run]
          IN  IF stage'[s].pc = "acked"
              THEN r.status = "succeeded"
              ELSE r.status = "failed" /\ r.error]_vars

\* the jobs in the queue that carry the id of run r
JobsOfRun(q, r) == {j \in q : j.runId = r}

\* the positions in the research page's history of the given operation of run r
PageOps(op, r) ==
    {i \in DOMAIN researchPage : researchPage[i].op = op /\ researchPage[i].run = r}

\* C28: a STAGE_ACTION that opened a run has, when it leaves the handler,
\* enqueued exactly one job carrying the id of that run, a RESEARCH_BATCH for
\* IN_DILIGENCE and a MEMO_GENERATE for IC_REVIEW, and no job for
\* FIRST_MEETING, PASS and ARCHIVE; the research page is cleared before the
\* RESEARCH_BATCH of the run is enqueued, never after.
C28_OneJobPerStage ==
    /\ [][\A s \in StageJobs : StageExit(s) =>
            LET jobs == JobsOfRun(queue', stage[s].run)
                stageKey == stage[s].env.stageKey
            IN  /\ stageKey = "IN_DILIGENCE" =>
                      Cardinality(jobs) = 1 /\ \A j \in jobs : j.jobType = "RESEARCH_BATCH"
                /\ stageKey = "IC_REVIEW" =>
                      Cardinality(jobs) = 1 /\ \A j \in jobs : j.jobType = "MEMO_GENERATE"
                /\ stageKey \in {"FIRST_MEETING", "PASS", "ARCHIVE"} => jobs = {}]_vars
    /\ [](\A r \in DOMAIN workflow_runs :
            \A c \in PageOps("clear", r), e \in PageOps("enqueue", r) : c < e)

\* the runs whose cancel_requested the step changes
Flagged ==
    {i \in DOMAIN workflow_runs :
        workflow_runs'[i].cancel_requested # workflow_runs[i].cancel_requested}

\* the runs of the deal that a requestCancellation by job s flags
RunningOf(s) ==
    {i \in DOMAIN workflow_runs :
        /\ workflow_runs[i].deal_id = stage[s].deal
        /\ workflow_runs[i].status = "running"
        /\ ~workflow_runs[i].cancel_requested}

\* previous_stage = IN_DILIGENCE or the new stage is PASS or ARCHIVE
CancellingPair(env) ==
    env.previousStage = "IN_DILIGENCE" \/ env.stageKey \in {"PASS", "ARCHIVE"}

\* job s passes from resolving the deal to opening its run, by way of the
\* cancellation or not
CancelStep(s) == stage[s].pc = "cancel" /\ stage'[s].pc = "run"
SkipStep(s) == stage[s].pc = "resolve" /\ stage'[s].pc = "run"
ToCancelStep(s) == stage[s].pc = "resolve" /\ stage'[s].pc = "cancel"

\* C29 as stated: cancel_requested is set on the running runs of the deal
\* exactly by a STAGE_ACTION with a cancelling pair, before it opens its own
\* run; no other step of a STAGE_ACTION changes cancel_requested of a run.
C29_CancelOnlyBeforeOwnRun ==
    [][\A s \in StageJobs :
          /\ ToCancelStep(s) => CancellingPair(stage[s].env)
          /\ SkipStep(s) => ~CancellingPair(stage[s].env)
          /\ CancelStep(s) => Flagged = RunningOf(s)
          /\ (stage'[s] # stage[s] /\ ~CancelStep(s)) => Flagged = {}]_vars

\* C29: a STAGE_ACTION with previous_stage = IN_DILIGENCE or with new stage
\* PASS or ARCHIVE sets cancel_requested on every running run of the deal
\* before it opens its own run, and one with any other pair does not; a PASS
\* or ARCHIVE job sets it once more after opening its run, on its own run
\* too; no other step changes cancel_requested of a run.
C29_CancelBeforeRunAndAgainOnPass ==
    [][\A s \in StageJobs :
          /\ ToCancelStep(s) => CancellingPair(stage[s].env)
          /\ SkipStep(s) => ~CancellingPair(stage[s].env)
          /\ CancelStep(s) => Flagged = RunningOf(s)
          /\ (stage[s].pc = "dispatch" /\ stage'[s].pc = "complete") =>
                IF stage[s].env.stageKey \in {"PASS", "ARCHIVE"}
                THEN /\ Flagged = RunningOf(s)
                     /\ workflow_runs'[stage[s].run].cancel_requested
                ELSE Flagged = {}
          /\ ( /\ stage'[s] # stage[s] /\ ~CancelStep(s)
               /\ ~(stage[s].pc = "dispatch" /\ stage'[s].pc = "complete") )
                => Flagged = {}]_vars

\* a PASS or ARCHIVE job has flagged its own run, after it had flagged the
\* run of another job before opening its own
C29_Witness ==
    \E s \in StageJobs :
        /\ stage[s].pc = "complete"
        /\ stage[s].env.stageKey \in {"PASS", "ARCHIVE"}
        /\ workflow_runs[stage[s].run].cancel_requested
        /\ \E i \in DOMAIN workflow_runs :
              /\ i < stage[s].run
              /\ workflow_runs[i].cancel_requested

\* the channels of the calendar's active rows
ActiveChannels(tbl, cal) == {tbl[i].channel_id : i \in ActiveIdx(tbl, cal)}

\* C30: the next_sync_token a CALENDAR_SYNC obtained, by incremental sync, by
\* full sync or by the full-sync fallback after 410, is stored after the event
\* loop on the row that is active for the calendar at that moment, on the
\* triggering row only when no row is active, also when the triggering channel
\* was replaced while the sync ran; and no event has two Deal rows.
C30_TokenGoesToActiveRow ==
    /\ [][\A j \in SyncJobs :
            (sync[j].pc = "token" /\ sync'[j].pc = "done") =>
                LET active == ActiveChannels(gcal_watches, sync[j].cal)
                IN  /\ sync[j].mode \in {"incremental", "full", "fallback"}
                    /\ active # {} => sync[j].target \in active
                    /\ active = {} => sync[j].target = sync[j].chan
                    /\ RowOf(gcal_watches', sync[j].target).sync_token = sync[j].token]_vars
    /\ [](\A i, k \in DOMAIN deals :
            (deals[i].gcal_calendar_id = deals[k].gcal_calendar_id
             /\ deals[i].gcal_event_id = deals[k].gcal_event_id) => i = k)

\* createDealObject has run its first step, or both, for job j
NotionStep(j) == sync[j].pc = "notion" /\ sync'[j].pc # "notion"
AsanaStep(j) == sync[j].pc = "asana" /\ sync'[j].pc # "asana"

\* C31: materialization never fails the sync: whether or not the workspace
\* was created, the task step follows; when no task is created the deal keeps
\* no task gid and the sync goes on with the next event; and a sync that
\* upserts a deal still without task gid materializes it again.
C31_MaterializationIsBestEffort ==
    [][\A j \in SyncJobs :
         /\ NotionStep(j) => sync'[j].pc = "asana" /\ sync'[j].deal = sync[j].deal
         /\ AsanaStep(j) =>
               /\ sync'[j].pc = "event" /\ sync'[j].events = Tail(sync[j].events)
               /\ tasks' = tasks =>
                     deals'[sync[j].deal].asana_task_gid = deals[sync[j].deal].asana_task_gid
               /\ tasks' # tasks /\ deals' # deals =>
                     deals'[sync[j].deal].asana_task_gid \in tasks'
         /\ (sync[j].pc = "event" /\ sync[j].events # <<>> /\ sync'[j] # sync[j]
             /\ sync'[j].skipped = sync[j].skipped
             /\ EventOf(Head(sync[j].events)).deal
             /\ EventOf(Head(sync[j].events)).status # "cancelled") =>
               LET id == UpsertReturning(deals, sync[j].cal, Head(sync[j].events))
               IN  deals'[id].asana_task_gid = NoGid =>
                      sync'[j].pc = "notion" /\ sync'[j].deal = id]_vars

\* a second sync materializes a deal whose workspace the first one created and
\* whose task creation failed
C31_Witness ==
    \E j \in SyncJobs :
        /\ j > 1 /\ sync[j].pc = "notion"
        /\ <<sync[j].deal, 1>> \in workspaces
        /\ Count(tasks, sync[j].deal) = 0
        /\ sync[1].pc = "done"

\* the flag of the run as the row holds it
FlagOf(runId) == runId \in DOMAIN workflow_runs /\ workflow_runs[runId].cancel_requested

\* the handler leaves its pre-check
BatchChecked == batch.pc = "precheck" /\ batch'.pc # "precheck"
MemoChecked == memo.pc = "precheck" /\ memo'.pc # "precheck"

StatusRank(st) == IF st = "active" THEN 0 ELSE IF st = "replaced" THEN 1 ELSE 2

\* C33: the status of a gcal_watches row only moves forward along active,
\* replaced, stopped, under any interleaving of Start, Replace, Stop and
\* housekeeping: no row returns to active and no stopped row becomes replaced.
C33_StatusMovesForward ==
    [][\A ch \in ChannelIds :
         (HasRow(gcal_watches, ch) /\ HasRow(gcal_watches', ch)) =>
            StatusRank(RowOf(gcal_watches', ch).status)
                >= StatusRank(RowOf(gcal_watches, ch).status)]_vars

\* a non-null value is not replaced by null
Kept(old, new) == old # Null => new # Null

\* C34: re-upserting an existing deal (same calendar and event) never replaces
\* a non-null company, founder or iCal uid by null and leaves asana_task_gid,
\* notion_deal_page_id, notion_urls and current_stage unchanged; and no step
\* removes a deals row.
C34_UpsertCoalescesAndKeeps ==
    [][/\ \A ev \in DealEvents, ical \in IcalUids, company \in DealCompanies,
             founder \in DealFounders :
             (/\ DealIdx(deals, "primary", ev) # {}
              /\ deals' = UpsertDeal(deals, "primary", ev, ical, company, founder)) =>
                \A i \in DOMAIN deals :
                    /\ Kept(deals[i].company_name, deals'[i].company_name)
                    /\ Kept(deals[i].founder_name, deals'[i].founder_name)
                    /\ Kept(deals[i].gcal_ical_uid, deals'[i].gcal_ical_uid)
                    /\ deals'[i].asana_task_gid = deals[i].asana_task_gid
                    /\ deals'[i].notion_deal_page_id = deals[i].notion_deal_page_id
                    /\ deals'[i].notion_urls = deals[i].notion_urls
                    /\ deals'[i].current_stage = deals[i].current_stage
       /\ \A i \in DOMAIN deals :
             /\ i \in DOMAIN deals'
             /\ deals'[i].id = deals[i].id
             /\ deals'[i].gcal_calendar_id = deals[i].gcal_calendar_id
             /\ deals'[i].gcal_event_id = deals[i].gcal_event_id]_vars

\* a materialized deal past its first stage, with all three fields set, exists
\* next to another deal
C34_Witness ==
    \E i \in DOMAIN deals :
        /\ deals[i].company_name # Null /\ deals[i].founder_name # Null
        /\ deals[i].gcal_ical_uid # Null
        /\ deals[i].asana_task_gid # NoGid /\ deals[i].notion_urls # NoUrls
        /\ deals[i].current_stage = "IN_DILIGENCE"
        /\ Len(deals) = 2

\* C35: in the calendar webhook, once the handler that claimed the key of a
\* ping (channel_id, message_number) has answered, a CALENDAR_SYNC job with
\* that key is in the queue, also when the enqueue call failed: a claimed key
\* never stands for a ping that has no job.
C35_ClaimedPingHasJob ==
    \A r \in idempotency_keys :
        (\A p \in pingPending : p.idempotencyKey # r.key) =>
            \E q \in gcalQueue : q.idempotencyKey = r.key

\* dispatch i recorded a section change and threw before its STAGE_ACTION was
\* enqueued: the stage lookup or the enqueue failed
LostAttempt(i) ==
    /\ procs[i].pc = "threw" /\ procs[i].changed /\ procs[i].wrote
    /\ \A e \in stageQueue : e.by # i

\* C36: a section change into a section mapped to an enabled stage is not
\* lost when the stage lookup or the enqueue fails in the first TASKS_PROCESS
\* attempt: the queue's retry, which finds the task in the same section, still
\* detects the change (and so enqueues the STAGE_ACTION).
C36_RetryStillDetectsChange ==
    [][\A j \in ProcJobs \ {1} :
         (/\ procs[j].pc = "select" /\ procs'[j].pc = "upsert"
          /\ LostAttempt(j - 1)
          /\ GetStageForSection(PipelineProject, procs[j].section) # Null
          /\ procs[j].section =
                ExistingState(asana_task_state, TaskOfDeal1,
                              PipelineProject).last_seen_section_gid)
            => procs'[j].changed]_vars

\* job j stores the token its enumeration ended with
TokenStored(j) ==
    /\ sync[j].pc = "event" /\ sync[j].events = <<>> /\ sync'[j].pc = "done"
    /\ gcal_watches' # gcal_watches

\* C37: whenever CALENDAR_SYNC persists the new sync token, every
\* non-cancelled deal event of its sync result has a deals row: an event whose
\* upsert threw is not left without a row while the token advances past it.
C37_TokenOnlyPastStoredEvents ==
    [][\A j \in SyncJobs :
         TokenStored(j) =>
            \A e \in sync[j].skipped : DealIdx(deals, sync[j].cal, e) # {}]_vars

\* C38: once the handshake has stored a webhook secret, no request changes it
\* (a later request with a secret header does not re-key the webhook), and a
\* request enqueues jobs only when it is signed with the stored secret.
C38_SecretFixedAndRequired ==
    [][/\ integration # Null => integration' = integration
       /\ \A rawBody \in Bodies : \A hookSignature \in SignaturesFor(rawBody) :
             (AsanaWebhook(Null, hookSignature, rawBody) /\ asanaQueue' # asanaQueue)
                => CorrectlySigned(integration, hookSignature, rawBody)]_vars

\* the order of the task's modified_at timestamps
ModifiedRank(m) == CASE m = "m1" -> 1 [] m = "m2" -> 2 [] m = "m3" -> 3 [] OTHER -> 0

\* the STAGE_ACTION jobs enqueued so far
EnqueuedStageJobs == {s \in StageJobs : stage[s].pc # "none"}

\* C39: when all STAGE_ACTION jobs of the task have been processed, the
\* deal's current_stage is the stage of the transition with the latest
\* modified_at, in whatever order the queue delivered the jobs.
C39_StageOfLatestTransition ==
    (EnqueuedStageJobs # {} /\ \A s \in EnqueuedStageJobs : stage[s].pc = "acked") =>
        \A s \in EnqueuedStageJobs :
            (\A t \in EnqueuedStageJobs \ {s} :
                ModifiedRank(stage[t].env.modifiedAt)
                    < ModifiedRank(stage[s].env.modifiedAt))
            => deals[1].current_stage = stage[s].env.stageKey

\* C40: requestCancellation(deal) changes nothing but cancel_requested of the
\* deal's runs with status running, which it sets: status and finished_at of
\* every run, every run in a terminal state and every run of another deal are
\* left as they were.
C40_CancellationTouchesOnlyRunningFlag ==
    [][\A d \in RunDeals :
         workflow_runs' = RequestCancellation(workflow_runs, d) =>
            /\ DOMAIN workflow_runs' = DOMAIN workflow_runs
            /\ \A i \in DOMAIN workflow_runs :
                 /\ workflow_runs'[i].status = workflow_runs[i].status
                 /\ workflow_runs'[i].finished_at = workflow_runs[i].finished_at
                 /\ [workflow_runs'[i] EXCEPT !.cancel_requested = FALSE]
                        = [workflow_runs[i] EXCEPT !.cancel_requested = FALSE]
                 /\ IF workflow_runs[i].deal_id = d /\ workflow_runs[i].status = "running"
                    THEN workflow_runs'[i].cancel_requested
                    ELSE workflow_runs'[i] = workflow_runs[i]]_vars

\* after a cancellation on deal 1: its running run is flagged, its closed run
\* and the running run of deal 2 are not
C40_Witness ==
    \E i, k, n \in DOMAIN workflow_runs :
        /\ workflow_runs[i].deal_id = 1 /\ workflow_runs[i].status = "running"
        /\ workflow_runs[i].cancel_requested
        /\ workflow_runs[k].deal_id = 1 /\ workflow_runs[k].status \in Terminal
        /\ ~workflow_runs[k].cancel_requested
        /\ workflow_runs[n].deal_id = 2 /\ workflow_runs[n].status = "running"
        /\ ~workflow_runs[n].cancel_requested

====
